---- MODULE Spec2Model ----
(***************************************************************************)
(* Job-lifecycle core of the repository tagging service: the audit store   *)
(* (jobs, job_runs, tag_assignments), the BullMQ queue keyed by a          *)
(* deterministic job id, event admission, the scheduler's per-repository   *)
(* decision, the manual-retry endpoint and the worker pipeline with its    *)
(* transient / permanent error handling.                                   *)
(*                                                                         *)
(* Time is counted in hours: RECENCY_WINDOW_MS and                         *)
(* FALLBACK_RECENCY_WINDOW_MS are the source's 12 h and 24 h windows.      *)
(***************************************************************************)
EXTENDS Integers, Sequences, FiniteSets, TLC

(* ------------------------------ bounds --------------------------------- *)
\* rows the job_runs table may hold before the model stops starting runs
MaxRuns == 3
\* last value of the wall clock, in hours
MaxTime == 36
\* audit-store I/O errors injected in one behaviour
MaxStoreFaults == 1
\* tags a model response may carry
MaxTags == 1
\* rows of job_runs in a store the API process or a recency probe starts from
MaxStoredRuns == 2
\* entries of a tag list handed directly to a pure function
MaxTagList == 3
\* tokens of a prompt template
MaxTemplate == 4

(* ------------------------- program constants --------------------------- *)
RECENCY_WINDOW_MS == 12
FALLBACK_RECENCY_WINDOW_MS == 24
attempts == 3
TAGGING_CONCURRENCY == 2

Repos == {"r1", "r2"}
\* an absent or empty string (both are falsy in the source)
NoString == ""
\* SQL NULL of a timestamp column
NullTime == 0 - 1
\* the clock advances in steps of one recency window
ClockStep == RECENCY_WINDOW_MS

\* error classes: jobs/errors.ts, utils/http.ts HttpError, better-sqlite3 errors
NoError == "none"
Transient == "TransientJobError"
Permanent == "PermanentJobError"
HttpFailure == "HttpError"
StoreFailure == "SqliteError"
\* error.message of the PermanentJobError thrown for missing metadata; the message
\* of any other error is represented by the name of its class
RepoUrlMessage == "Repository metadata missing repoUrl"

VARIABLES
  now,              \* wall clock (Date.now()), hours
  jobs,             \* table jobs: sequence of rows, row id = index
  job_runs,         \* table job_runs: sequence of rows, row id = index
  tag_assignments,  \* table tag_assignments: set of <<job_run_id, n, columns>>
  queue,            \* BullMQ queue: set of job records (all states)
  published,        \* lifecycle events handed to the publisher
  repositoryListener, \* whether a listener was passed to the EventSubscriber
  lastEvent,        \* the event the listener was last called with
  faults,           \* audit-store I/O errors raised so far
  recency,          \* result of the last direct hasRecentSuccessfulRun probe
  scheduler,        \* the Scheduler object, its runCycle calls and the catalog
  subscriber,       \* the EventSubscriber: its subscription, and whether it dropped a message
  call,             \* the last direct call of a pure function: its arguments and its result
  worker            \* the worker process: closing, exited, how often it was started

\* no pure function has been called directly
NoCall == [fn |-> "none"]

\* a worker process that was started once and has received no signal
WorkerStarted == [closing |-> FALSE, exited |-> FALSE, starts |-> 1]

vars == <<now, jobs, job_runs, tag_assignments, queue, published,
          repositoryListener, lastEvent, faults, recency, scheduler, subscriber, call, worker>>

(* ============================ audit store ============================== *)

JobIdOf(js, r) == CHOOSE i \in DOMAIN js : js[i].repository_id = r

JobKnown(js, r) == \E i \in DOMAIN js : js[i].repository_id = r

upsertJobResetting(js, r) ==
  IF JobKnown(js, r)
    THEN [js EXCEPT ![JobIdOf(js, r)] = [@ EXCEPT !.status = "queued"]]
    ELSE Append(js, [repository_id |-> r, status |-> "queued", runs |-> 0,
                     last_run_at |-> NullTime])

\* INSERT ... ON CONFLICT(repository_id) DO UPDATE SET updated_at
\* (updated_at is not modelled)
upsertJob(js, r) ==
  IF JobKnown(js, r)
    THEN js
    ELSE Append(js, [repository_id |-> r, status |-> "queued", runs |-> 0,
                     last_run_at |-> NullTime])

NewRun(jobId, t) ==
  [job_id |-> jobId, status |-> "running", started_at |-> t,
   completed_at |-> NullTime, error_message |-> NoError,
   prompt |-> FALSE, raw_response |-> FALSE, seals |-> 0, sealErrors |-> 0]

\* startJobRun: INSERT INTO job_runs, then UPDATE jobs
startJobRun_runs(rs, jobId, t) == Append(rs, NewRun(jobId, t))

startJobRun_jobsKeepingCounter(js, jobId, t) ==
  [js EXCEPT ![jobId] = [@ EXCEPT !.status = "running", !.last_run_at = t]]

startJobRun_jobs(js, jobId, t) ==
  [js EXCEPT ![jobId] = [@ EXCEPT !.status = "running", !.runs = @ + 1,
                                  !.last_run_at = t]]

\* seals and sealErrors are not columns: they count the completeJobRun calls
\* that wrote the row and those that raised

\* completeJobRun, first statement: UPDATE job_runs ... WHERE id = @jobRunId
completeJobRun_run(rs, runId, status, t, errorMessage, prompt, raw) ==
  [rs EXCEPT ![runId] = [@ EXCEPT !.status = status, !.completed_at = t,
                                  !.error_message = errorMessage,
                                  !.prompt = prompt, !.raw_response = raw,
                                  !.seals = @ + 1]]

\* completeJobRun, second statement: UPDATE jobs SET status
completeJobRun_job(js, rs, runId, status) ==
  [js EXCEPT ![rs[runId].job_id] = [@ EXCEPT !.status = status]]

\* a completeJobRun call for the row raised a store error
completeJobRun_raised(rs, runId) ==
  [rs EXCEPT ![runId] = [@ EXCEPT !.sealErrors = @ + 1]]

\* rows a succeeded-run query for repository r selects
SucceededRuns(js, rs, r) ==
  {i \in DOMAIN rs : /\ js[rs[i].job_id].repository_id = r
                     /\ rs[i].status = "succeeded"}

\* ORDER BY completed_at DESC LIMIT 1 (NULL sorts last); 0 when there is no row
getLatestSuccessfulRun(js, rs, r) ==
  LET S == SucceededRuns(js, rs, r) IN
  IF S = {} THEN 0
  ELSE CHOOSE i \in S : \A k \in S : rs[k].completed_at <= rs[i].completed_at

hasRecentSuccessfulRun(js, rs, t, r, maxAgeMs) ==
  LET latest == getLatestSuccessfulRun(js, rs, r) IN
  IF latest = 0 \/ rs[latest].completed_at = NullTime
    THEN FALSE
    ELSE LET age == t - rs[latest].completed_at IN age >= 0 /\ age <= maxAgeMs

\* recordTagAssignments: one transaction, no-op for an empty list; a row is
\* <<job_run_id, position in the list, the columns scope, key, value, confidence>>
\* and confidence is row.confidence ?? null
recordTagAssignments(ta, runId, assignments) ==
  ta \cup {<<runId, k,
             [scope |-> assignments[k].scope, key |-> assignments[k].key,
              value |-> assignments[k].value,
              confidence |-> IF assignments[k].confidence.kind = "undefined"
                               THEN [kind |-> "null", n |-> 0]
                               ELSE assignments[k].confidence]>> :
            k \in DOMAIN assignments}

AssignmentsOf(runId) == {a \in tag_assignments : a[1] = runId}

(* ========================= tag normalization =========================== *)

\* strings are sequences of one-character strings
IsSpace(c) == c = " "

LowerChar(c) == CASE c = "A" -> "a" [] c = "B" -> "b" [] OTHER -> c

\* [a-z0-9] on the characters of the model
IsKeyChar(c) == c \in {"a", "b", "1"}

\* the characters strings of the model are made of
Chars == {"A", "B", "a", "b", "1", " ", "-", "_", ":"}

RECURSIVE DropWhileStart(_, _)
\* s without its longest prefix of characters of the class
DropWhileStart(class, s) ==
  IF s # <<>> /\ Head(s) \in class THEN DropWhileStart(class, Tail(s)) ELSE s

RECURSIVE DropWhileEnd(_, _)
DropWhileEnd(class, s) ==
  IF s # <<>> /\ s[Len(s)] \in class
    THEN DropWhileEnd(class, SubSeq(s, 1, Len(s) - 1)) ELSE s

\* String.prototype.trim
trim(s) ==
  DropWhileEnd({c \in Chars : IsSpace(c)}, DropWhileStart({c \in Chars : IsSpace(c)}, s))

\* String.prototype.toLowerCase
toLowerCase(s) == [i \in DOMAIN s |-> LowerChar(s[i])]

NotKeyChar(c) == ~IsKeyChar(c)

RECURSIVE ReplaceNonKeyRuns(_)
\* .replace(/[^a-z0-9]+/g, '_')
ReplaceNonKeyRuns(s) ==
  IF s = <<>> THEN <<>>
  ELSE IF IsKeyChar(Head(s)) THEN <<Head(s)>> \o ReplaceNonKeyRuns(Tail(s))
  ELSE <<"_">> \o ReplaceNonKeyRuns(DropWhileStart({c \in Chars : NotKeyChar(c)}, Tail(s)))

IsUnderscore(c) == c = "_"

\* .replace(/^_+|_+$/g, '')
StripUnderscores(s) ==
  DropWhileEnd({c \in Chars : IsUnderscore(c)},
               DropWhileStart({c \in Chars : IsUnderscore(c)}, s))

\* normalizeKey with its two replacements in the other order
normalizeKeyStrippingFirst(key) == ReplaceNonKeyRuns(StripUnderscores(toLowerCase(trim(key))))

normalizeKey(key) == StripUnderscores(ReplaceNonKeyRuns(toLowerCase(trim(key))))

normalizeValue(value) == toLowerCase(trim(value))

\* a confidence is absent, NaN or a number (in tenths), as the type says, or what
\* else JSON.parse may put there: null, or a string that is not a numeral
NoConfidence == [kind |-> "undefined", n |-> 0]
NaN == [kind |-> "NaN", n |-> 0]
Number(n) == [kind |-> "number", n |-> n]
Null == [kind |-> "null", n |-> 0]
Text == [kind |-> "string", n |-> 0]

\* the number a relational operator compares: null is 0, such a string is NaN
ToNumber(v) ==
  IF v.kind = "null" THEN Number(0) ELSE IF v.kind = "string" THEN NaN ELSE v

\* v < n and v > n, false when v converts to NaN
LessThan(v, n) == ToNumber(v).kind = "number" /\ ToNumber(v).n < n
GreaterThan(v, n) == ToNumber(v).kind = "number" /\ ToNumber(v).n > n

\* Number.isNaN is true of the number NaN only
clampConfidence(confidence) ==
  IF confidence.kind = "undefined" THEN NoConfidence
  ELSE IF confidence.kind = "NaN" THEN NoConfidence
  ELSE IF LessThan(confidence, 0) THEN Number(0)
  ELSE IF GreaterThan(confidence, 10) THEN Number(10)
  ELSE confidence

\* a signature that leaves the value out
SignatureOfKey(key, value) == key

\* `${key}:${value}`
Signature(key, value) == key \o <<":">> \o value

RECURSIVE NormalizeFrom(_, _, _)
\* the loop of normalizeRepositoryTags over the rest of the input
NormalizeFrom(tags, seen, normalized) ==
  IF tags = <<>> THEN normalized
  ELSE LET tag == Head(tags)
           key == normalizeKey(tag.key)
           value == normalizeValue(tag.value) IN
       IF key = <<>> \/ value = <<>> THEN NormalizeFrom(Tail(tags), seen, normalized)
       ELSE IF Signature(key, value) \in seen
         THEN NormalizeFrom(Tail(tags), seen, normalized)
       ELSE NormalizeFrom(Tail(tags), seen \cup {Signature(key, value)},
                          Append(normalized,
                                 [key |-> key, value |-> value,
                                  confidence |-> clampConfidence(tag.confidence)]))

normalizeRepositoryTags(tags) == NormalizeFrom(tags, {}, <<>>)

\* file.tags.length >= 0: a filter that keeps every file
HasTagList(file) == Len(file.tags) >= 0

\* file.tags.length > 0
HasTags(file) == file.tags # <<>>

normalizeFileTags(fileTags) ==
  SelectSeq([i \in DOMAIN fileTags |->
               [path |-> fileTags[i].path,
                tags |-> normalizeRepositoryTags(fileTags[i].tags)]],
            HasTags)

RECURSIVE CountFileTags(_)
\* fileTags.reduce((sum, file) => sum + file.tags.length, 0)
CountFileTags(fileTags) ==
  IF fileTags = <<>> THEN 0
  ELSE Len(Head(fileTags).tags) + CountFileTags(Tail(fileTags))

\* tags.map((tag) => ({scope, target, key, value, confidence}))
AssignmentsOfTags(scope, tags) ==
  [i \in DOMAIN tags |->
     [scope |-> scope, key |-> tags[i].key, value |-> tags[i].value,
      confidence |-> tags[i].confidence]]

RECURSIVE AssignmentsOfFiles(_)
\* fileTags.flatMap((file) => file.tags.map(...))
AssignmentsOfFiles(fileTags) ==
  IF fileTags = <<>> THEN <<>>
  ELSE AssignmentsOfTags("file", Head(fileTags).tags) \o AssignmentsOfFiles(Tail(fileTags))

\* the list process() hands to recordTagAssignments
Assignments(repositoryTags, fileTags) ==
  AssignmentsOfTags("repository", repositoryTags) \o AssignmentsOfFiles(fileTags)

\* a tag as the model returns it
RawTag(key, value, confidence) ==
  [key |-> key, value |-> value, confidence |-> confidence]

\* two spellings of one tag, and a tag whose key normalizes to the empty string
RawTags == {RawTag(<<"A">>, <<"b">>, Number(15)),
            RawTag(<<" ", "a", "-">>, <<"B", " ">>, NaN),
            RawTag(<<"-">>, <<"a">>, NoConfidence)}

\* no response received
NoResponse == [repository_tags |-> <<>>, file_tags |-> <<>>]

(* ============================== queue ================================== *)

\* sha1 digest, hex: collision-free on the repository ids of the model
sha1hex(r) == <<"sha1", r>>

taggingJobId(repositoryId) == <<"tagging-", sha1hex(repositoryId)>>

Pending == {"waiting", "active", "delayed"}
Finished == {"completed", "failed"}

NewJob(r, trigger) ==
  [id |-> taggingJobId(r), repositoryId |-> r, trigger |-> trigger,
   state |-> "waiting", attemptsStarted |-> 0, runsCreated |-> 0,
   failedReason |-> NoError,
   pc |-> "idle", runId |-> 0, err |-> NoError, message |-> NoError,
   prompt |-> FALSE, received |-> FALSE, raw |-> FALSE, nTags |-> 0,
   response |-> NoResponse, repositoryTags |-> <<>>, fileTags |-> <<>>]

\* runsCreated is not a BullMQ field: it counts the runs started for the job

JobExistsWaitingOnly(q, id) == \E j \in q : j.id = id /\ j.state = "waiting"

\* BullMQ addJob script: a job id already present in the queue, in any state
\* (finished jobs are retained by removeOnComplete / removeOnFail), is a duplicate
JobExists(q, id) == \E j \in q : j.id = id

QueueAddNoDedup(q, r, trigger) == q \cup {NewJob(r, trigger)}

\* queue.add('tag-repository', data, { jobId })
QueueAdd(q, r, trigger) ==
  IF JobExists(q, taggingJobId(r)) THEN q ELSE q \cup {NewJob(r, trigger)}

Replace(q, j, k) == (q \ {j}) \cup {k}

(* ========================== event admission ============================ *)

\* event names are <<namespace, rest>>: "repository.updated" is <<"repository", "updated">>
EventNames == {<<"repository", "updated">>, <<"repository", "ingestion-event">>,
               <<"repository", "deleted">>, <<"build", "finished">>}
IngestStatuses == {"ready", "pending", NoString}

\* a parsed message, after the envelope shapes have been read
Messages == [eventName : EventNames, repositoryId : Repos \cup {NoString},
             ingestStatus : IngestStatuses]

NoEvent == [eventName |-> <<NoString, NoString>>, repositoryId |-> NoString,
            ingestStatus |-> NoString]

DroppedByNameOnly(m) == m.eventName[1] # "repository"

\* normalizeEvent returns null for these
Dropped(m) == m.eventName[1] # "repository" \/ m.repositoryId = NoString

TriggersTaggingAnyRepositoryEvent(m) == m.eventName[1] = "repository"

TriggersTagging(m) ==
  m.eventName \in {<<"repository", "updated">>, <<"repository", "ingestion-event">>}

AdmitsIgnoringRecency(m) ==
  ~Dropped(m) /\ TriggersTagging(m) /\ m.ingestStatus = "ready"

\* the decision of handleMessage to call enqueueTaggingJob
Admits(m) ==
  /\ ~Dropped(m)
  /\ TriggersTagging(m)
  /\ m.ingestStatus = "ready"
  /\ ~hasRecentSuccessfulRun(jobs, job_runs, now, m.repositoryId, RECENCY_WINDOW_MS)

\* handleMessage from normalizeEvent on: the listener is called with every event
\* normalizeEvent returns, then the event is enqueued if admitted
handleParsed(m) ==
  /\ queue' = IF Admits(m) THEN QueueAdd(queue, m.repositoryId, "event") ELSE queue
  /\ lastEvent' = IF repositoryListener /\ ~Dropped(m) THEN m ELSE lastEvent
  /\ UNCHANGED <<now, jobs, job_runs, tag_assignments, published,
                 repositoryListener, faults, recency, scheduler, call, worker>>

\* handleMessage on a message that is valid JSON, by a started subscriber
handleMessage(m) ==
  /\ handleParsed(m)
  /\ UNCHANGED subscriber

\* a started EventSubscriber that has dropped no message; subscribed is the
\* channel subscription of its Redis connection, quit the closed connection
Subscribed == [listening |-> TRUE, quit |-> FALSE, dropped |-> FALSE, subscribed |-> TRUE]

\* a message as Redis delivers it: text that JSON.parse accepts, with what
\* normalizeEvent reads from it, or text that it rejects
RawMessages ==
  [json : {TRUE}, parsed : Messages] \cup {[json |-> FALSE, parsed |-> NoEvent]}

\* EventSubscriber.start: redis.subscribe; on('message'); listening = true
SubscriberStart ==
  /\ ~subscriber.quit
  /\ subscriber' = [subscriber EXCEPT !.listening = TRUE, !.subscribed = TRUE]
  /\ UNCHANGED <<now, jobs, job_runs, tag_assignments, queue, published, repositoryListener,
                 lastEvent, faults, recency, scheduler, call, worker>>

\* EventSubscriber.stop: removeListener; unsubscribe; listening = false; quit
SubscriberStop ==
  /\ subscriber.listening
  /\ subscriber' = [subscriber EXCEPT !.listening = FALSE, !.quit = TRUE,
                                   !.subscribed = FALSE]
  /\ UNCHANGED <<now, jobs, job_runs, tag_assignments, queue, published, repositoryListener,
                 lastEvent, faults, recency, scheduler, call, worker>>

\* messageListener: handleMessage(raw), whose JSON.parse error and whose null from
\* normalizeEvent end the call; dropped records that one of the two happened
messageListener(raw) ==
  /\ subscriber.listening
  /\ subscriber' = [subscriber EXCEPT !.dropped = @ \/ ~raw.json \/ Dropped(raw.parsed)]
  /\ IF raw.json THEN handleParsed(raw.parsed)
     ELSE UNCHANGED <<now, jobs, job_runs, tag_assignments, queue, published,
                      repositoryListener, lastEvent, faults, recency, scheduler, call, worker>>

(* ============================= scheduler =============================== *)

\* a catalog summary {id, ingestStatus?}
Summaries == [id : Repos \cup {NoString}, ingestStatus : IngestStatuses]

SchedulerAdmitsAnyStatus(repo) ==
  /\ repo.id # NoString
  /\ ~hasRecentSuccessfulRun(jobs, job_runs, now, repo.id, FALLBACK_RECENCY_WINDOW_MS)

\* the three early returns of maybeEnqueueRepository
SchedulerAdmits(repo) ==
  /\ repo.id # NoString
  /\ ~(repo.ingestStatus # NoString /\ repo.ingestStatus # "ready")
  /\ ~hasRecentSuccessfulRun(jobs, job_runs, now, repo.id, FALLBACK_RECENCY_WINDOW_MS)

maybeEnqueueRepository(repo) ==
  /\ queue' = IF SchedulerAdmits(repo) THEN QueueAdd(queue, repo.id, "scheduler")
              ELSE queue
  /\ UNCHANGED <<now, jobs, job_runs, tag_assignments, published, repositoryListener, lastEvent,
                 faults, recency, scheduler, subscriber, call, worker>>

\* page size of one listRepositories call
perPage == 50

\* GET /apps?page=&perPage= of a catalog that lists its repositories in a fixed order
PageOf(catalog, page, n) ==
  SubSeq(catalog, (page - 1) * n + 1,
         IF page * n <= Len(catalog) THEN page * n ELSE Len(catalog))

\* one call of runCycle after its guard: the page it is at, the page it holds and
\* its position in it; listed and added record the pages it was given and the
\* repositories it called queue.add for
NewCycle ==
  [active |-> TRUE, failed |-> FALSE, pc |-> "list", page |-> 1, repos |-> <<>>,
   next |-> 0, listed |-> <<>>, added |-> <<>>]

IsActive(c) == c.active

IsEnded(c) == ~c.active

\* a Scheduler that was not started, whose catalog lists nothing
SchedulerIdle ==
  [timer |-> FALSE, running |-> FALSE, cycles |-> <<>>, previous |-> "none",
   catalog |-> <<>>]

runCycleEntersAlways(s) == TRUE

\* if (this.running) return
runCycleEnters(s) == ~s.running

\* runCycle up to its first await: the guard, then this.running = true. The calls
\* that have returned are forgotten but for how the last of them ended
runCycle(s) ==
  IF runCycleEnters(s)
    THEN LET ended == SelectSeq(s.cycles, IsEnded) IN
         [s EXCEPT !.running = TRUE,
                   !.cycles = Append(SelectSeq(s.cycles, IsActive), NewCycle),
                   !.previous = IF ended = <<>> THEN s.previous
                                ELSE IF ended[Len(ended)].failed THEN "failed"
                                ELSE "ended"]
    ELSE s

\* catch (error) { log } finally { this.running = false }
EndCycle(s, i, failed) ==
  [s EXCEPT !.running = FALSE,
            !.cycles[i] = [@ EXCEPT !.active = FALSE, !.failed = failed]]

\* Scheduler.start: nothing if the timer is set; setInterval, then runCycle
start ==
  /\ scheduler' = IF scheduler.timer THEN scheduler
                  ELSE runCycle([scheduler EXCEPT !.timer = TRUE])
  /\ UNCHANGED <<now, jobs, job_runs, tag_assignments, queue, published, repositoryListener,
                 lastEvent, faults, recency, subscriber, call, worker>>

\* Scheduler.stop: clearInterval
stop ==
  /\ scheduler' = [scheduler EXCEPT !.timer = FALSE]
  /\ UNCHANGED <<now, jobs, job_runs, tag_assignments, queue, published, repositoryListener,
                 lastEvent, faults, recency, subscriber, call, worker>>

\* the interval timer fires
TimerFires ==
  /\ scheduler.timer
  /\ scheduler' = runCycle(scheduler)
  /\ UNCHANGED <<now, jobs, job_runs, tag_assignments, queue, published, repositoryListener,
                 lastEvent, faults, recency, subscriber, call, worker>>

\* await catalogClient.listRepositories({page, perPage}) returns or raises; an
\* empty page ends the cycle
ListRepositories(i, ok) ==
  /\ i \in DOMAIN scheduler.cycles
  /\ scheduler.cycles[i].active /\ scheduler.cycles[i].pc = "list"
  /\ LET c == scheduler.cycles[i]
         repos == PageOf(scheduler.catalog, c.page, perPage)
         given == [c EXCEPT !.listed = Append(@, c.page), !.repos = repos, !.next = 1] IN
     scheduler' =
       IF ~ok THEN EndCycle(scheduler, i, TRUE)
       ELSE IF repos = <<>>
         THEN EndCycle([scheduler EXCEPT !.cycles[i] = given], i, FALSE)
       ELSE [scheduler EXCEPT !.cycles[i] = [given EXCEPT !.pc = "visit"]]
  /\ UNCHANGED <<now, jobs, job_runs, tag_assignments, queue, published, repositoryListener,
                 lastEvent, faults, recency, subscriber, call, worker>>

\* await this.maybeEnqueueRepository(repo) for the next repository of the page,
\* where queue.add returns or raises; after the last one a short page ends the
\* cycle and a full page is followed by the next page
VisitRepository(i, ok) ==
  /\ i \in DOMAIN scheduler.cycles
  /\ scheduler.cycles[i].active /\ scheduler.cycles[i].pc = "visit"
  /\ LET c == scheduler.cycles[i]
         repo == c.repos[c.next]
         visited == [c EXCEPT !.added = IF SchedulerAdmits(repo) THEN Append(@, repo.id)
                                        ELSE @] IN
     /\ ~ok => SchedulerAdmits(repo)
     /\ queue' = IF ok /\ SchedulerAdmits(repo) THEN QueueAdd(queue, repo.id, "scheduler")
                 ELSE queue
     /\ scheduler' =
          IF ~ok THEN EndCycle(scheduler, i, TRUE)
          ELSE IF c.next < Len(c.repos)
            THEN [scheduler EXCEPT !.cycles[i] = [visited EXCEPT !.next = @ + 1]]
          ELSE IF Len(c.repos) < perPage
            THEN EndCycle([scheduler EXCEPT !.cycles[i] = visited], i, FALSE)
          ELSE [scheduler EXCEPT !.cycles[i] = [visited EXCEPT !.page = @ + 1,
                                                               !.pc = "list"]]
  /\ UNCHANGED <<now, jobs, job_runs, tag_assignments, published, repositoryListener,
                 lastEvent, faults, recency, subscriber, call, worker>>

(* ============================ manual retry ============================= *)

\* POST /jobs/:repositoryId/retry
ManualRetry(r) ==
  /\ jobs' = upsertJob(jobs, r)
  /\ queue' = QueueAdd(queue, r, "manual")
  /\ UNCHANGED <<now, job_runs, tag_assignments, published, repositoryListener, lastEvent, faults,
                 recency, scheduler, subscriber, call, worker>>

(* ========================== recency probe ============================== *)

NoProbe == [repositoryId |-> NoString, maxAgeMs |-> 0, result |-> FALSE]

\* a direct call hasRecentSuccessfulRun(r, maxAgeMs)
Probe(r, maxAgeMs) ==
  /\ recency' = [repositoryId |-> r, maxAgeMs |-> maxAgeMs,
                 result |-> hasRecentSuccessfulRun(jobs, job_runs, now, r, maxAgeMs)]
  /\ UNCHANGED <<now, jobs, job_runs, tag_assignments, queue, published,
                 repositoryListener, lastEvent, faults, scheduler, subscriber, call, worker>>

(* =============================== clock ================================= *)

Tick ==
  /\ now + ClockStep <= MaxTime
  /\ now' = now + ClockStep
  /\ UNCHANGED <<jobs, job_runs, tag_assignments, queue, published, repositoryListener, lastEvent,
                 faults, recency, scheduler, subscriber, call, worker>>

(* =========================== worker pipeline =========================== *)

Active(q) == {j \in q : j.state = "active"}

AtPc(j, pc) == j \in queue /\ j.state = "active" /\ j.pc = pc

\* the exception e leaves the try block of TaggingProcessor.process
Raise(j, e) == [j EXCEPT !.err = e, !.message = e, !.pc = "catch"]

\* Worker: a free slot takes a waiting job
Pickup(j) ==
  /\ j \in queue /\ j.state = "waiting"
  /\ Cardinality(Active(queue)) < TAGGING_CONCURRENCY
  /\ Len(job_runs) < MaxRuns
  /\ queue' = Replace(queue, j,
                [j EXCEPT !.state = "active", !.attemptsStarted = @ + 1,
                          !.pc = "begin", !.runId = 0, !.err = NoError,
                          !.message = NoError,
                          !.prompt = FALSE, !.received = FALSE, !.raw = FALSE,
                          !.nTags = 0,
                          !.response = NoResponse, !.repositoryTags = <<>>,
                          !.fileTags = <<>>])
  /\ UNCHANGED <<now, jobs, job_runs, tag_assignments, published, repositoryListener, lastEvent,
                 faults, recency, scheduler, subscriber, call, worker>>

\* process: upsertJob(repositoryId); startJobRun(jobRecord.id)
StartRun(j) ==
  /\ AtPc(j, "begin")
  /\ LET js == upsertJob(jobs, j.repositoryId)
         jobId == JobIdOf(js, j.repositoryId) IN
       /\ job_runs' = startJobRun_runs(job_runs, jobId, now)
       /\ jobs' = startJobRun_jobs(js, jobId, now)
  /\ queue' = Replace(queue, j, [j EXCEPT !.runId = Len(job_runs) + 1,
                                          !.runsCreated = @ + 1,
                                          !.pc = "metadata"])
  /\ UNCHANGED <<now, tag_assignments, published, repositoryListener, lastEvent, faults, recency, scheduler, subscriber, call, worker>>

MetadataErrorTransient(outcome) ==
  IF outcome = "noRepoUrl" THEN Transient ELSE HttpFailure

\* catalogClient.getRepository and the repoUrl check
MetadataError(outcome) ==
  IF outcome = "noRepoUrl" THEN Permanent ELSE HttpFailure

MetadataMessage(outcome) ==
  IF outcome = "noRepoUrl" THEN RepoUrlMessage ELSE HttpFailure

FetchMetadata(j, outcome) ==
  /\ AtPc(j, "metadata")
  /\ queue' = Replace(queue, j,
                IF outcome = "ok" THEN [j EXCEPT !.pc = "checkout"]
                ELSE [Raise(j, MetadataError(outcome))
                        EXCEPT !.message = MetadataMessage(outcome)])
  /\ UNCHANGED <<now, jobs, job_runs, tag_assignments, published, repositoryListener, lastEvent,
                 faults, recency, scheduler, subscriber, call, worker>>

\* ensureRepositoryCheckout (runGit wraps every failure), gatherFileSummaries
Checkout(j, ok) ==
  /\ AtPc(j, "checkout")
  /\ queue' = Replace(queue, j,
                IF ok THEN [j EXCEPT !.pc = "model"] ELSE Raise(j, Transient))
  /\ UNCHANGED <<now, jobs, job_runs, tag_assignments, published, repositoryListener, lastEvent,
                 faults, recency, scheduler, subscriber, call, worker>>

\* what a chat/completions request comes to: a usable answer, no 2xx answer after
\* the retries, or a 2xx answer without content, with content that is not JSON, or
\* with JSON that has no repository_tags array
ModelOutcomes == {"ok", "requestFailed", "noContent", "notJson", "noRepositoryTags"}

\* httpRequest returned the body of a 2xx answer
Received(outcome) == outcome # "requestFailed"

\* the error generateTags throws for a failed request / an unusable 200
ModelError(outcome) == IF outcome = "requestFailed" THEN Transient ELSE Permanent

\* the model call with the error of generateTags ignored: the execution goes on
\* to the tag writes whatever the call came to
ModelCallIgnoringErrors(j, outcome, response) ==
  /\ AtPc(j, "model")
  /\ queue' = Replace(queue, j,
                IF outcome = "ok"
                  THEN LET repositoryTags == normalizeRepositoryTags(response.repository_tags)
                           fileTags == normalizeFileTags(response.file_tags) IN
                       [j EXCEPT !.prompt = TRUE, !.received = TRUE, !.raw = TRUE,
                                 !.response = response,
                                 !.repositoryTags = repositoryTags,
                                 !.fileTags = fileTags,
                                 !.nTags = Len(repositoryTags) + CountFileTags(fileTags),
                                 !.pc = "apply"]
                  ELSE [j EXCEPT !.prompt = TRUE, !.received = Received(outcome),
                                 !.pc = "apply"])
  /\ UNCHANGED <<now, jobs, job_runs, tag_assignments, published, repositoryListener, lastEvent,
                 faults, recency, scheduler, subscriber, call, worker>>

\* buildPrompt; aiClient.generateTags; normalize; diff.
\* nTags is the number of assignments recordTagAssignments will be given
ModelCall(j, outcome, response) ==
  /\ AtPc(j, "model")
  /\ queue' = Replace(queue, j,
                IF outcome = "ok"
                  THEN LET repositoryTags == normalizeRepositoryTags(response.repository_tags)
                           fileTags == normalizeFileTags(response.file_tags) IN
                       [j EXCEPT !.prompt = TRUE, !.received = TRUE, !.raw = TRUE,
                                 !.response = response,
                                 !.repositoryTags = repositoryTags,
                                 !.fileTags = fileTags,
                                 !.nTags = Len(repositoryTags) + CountFileTags(fileTags),
                                 !.pc = "apply"]
                  ELSE Raise([j EXCEPT !.prompt = TRUE, !.received = Received(outcome)],
                             ModelError(outcome)))
  /\ UNCHANGED <<now, jobs, job_runs, tag_assignments, published, repositoryListener, lastEvent,
                 faults, recency, scheduler, subscriber, call, worker>>

ApplyAfterRecord(j, ok) ==
  /\ AtPc(j, "apply")
  /\ tag_assignments' = recordTagAssignments(tag_assignments, j.runId,
                                             Assignments(j.repositoryTags, j.fileTags))
  /\ queue' = Replace(queue, j,
                IF ok THEN [j EXCEPT !.pc = "complete"] ELSE Raise(j, Transient))
  /\ UNCHANGED <<now, jobs, job_runs, published, repositoryListener, lastEvent,
                 faults, recency, scheduler, subscriber, call, worker>>

\* applyRepositoryTags; applyFileTags
Apply(j, ok) ==
  /\ AtPc(j, "apply")
  /\ queue' = Replace(queue, j,
                IF ok THEN [j EXCEPT !.pc = "record"] ELSE Raise(j, Transient))
  /\ UNCHANGED <<now, jobs, job_runs, tag_assignments, published, repositoryListener, lastEvent,
                 faults, recency, scheduler, subscriber, call, worker>>

\* recordTagAssignments(jobRun.id, [...]) in the try block
Record(j, fault) ==
  /\ AtPc(j, "record")
  /\ fault => faults < MaxStoreFaults
  /\ faults' = IF fault THEN faults + 1 ELSE faults
  /\ tag_assignments' = IF fault THEN tag_assignments
                        ELSE recordTagAssignments(tag_assignments, j.runId,
                                             Assignments(j.repositoryTags, j.fileTags))
  /\ queue' = Replace(queue, j,
                IF fault THEN Raise(j, StoreFailure) ELSE [j EXCEPT !.pc = "complete"])
  /\ UNCHANGED <<now, jobs, job_runs, published, repositoryListener, lastEvent, recency, scheduler, subscriber, call, worker>>

\* completeJobRun(jobRun.id, {status: 'succeeded', ...}) in the try block.
\* fault "run": the UPDATE of job_runs raises; fault "job": the UPDATE of jobs
\* raises after the job_runs row was written (the statements share no transaction)
CompleteSucceeded(j, fault) ==
  /\ AtPc(j, "complete")
  /\ fault # "none" => faults < MaxStoreFaults
  /\ faults' = IF fault # "none" THEN faults + 1 ELSE faults
  /\ LET written == completeJobRun_run(job_runs, j.runId, "succeeded", now,
                                        NoError, j.prompt, j.raw) IN
       job_runs' = CASE fault = "none" -> written
                     [] fault = "run" -> completeJobRun_raised(job_runs, j.runId)
                     [] fault = "job" -> completeJobRun_raised(written, j.runId)
  /\ jobs' = IF fault = "none"
               THEN completeJobRun_job(jobs, job_runs, j.runId, "succeeded")
               ELSE jobs
  /\ queue' = Replace(queue, j,
                IF fault = "none" THEN [j EXCEPT !.pc = "notify"]
                ELSE Raise(j, StoreFailure))
  /\ UNCHANGED <<now, tag_assignments, published, repositoryListener, lastEvent, recency, scheduler, subscriber, call, worker>>

\* the events handed to the publisher so far, with one more at the end; seq is the
\* position of the event, and a field its payload does not have is FALSE or 0
Emit(log, event, jobRunId, transient, repositoryTags, fileTags, delivery) ==
  log \cup {[seq |-> Cardinality(log) + 1, event |-> event, jobRunId |-> jobRunId,
             transient |-> transient, repositoryTags |-> repositoryTags,
             fileTags |-> fileTags, delivery |-> delivery]}

\* retry option webhook.emit passes to httpRequest
WEBHOOK_RETRY == 1

\* answers of the webhook endpoint to successive POSTs: TRUE is a 2xx response
Fetches == [1..(WEBHOOK_RETRY + 2) -> BOOLEAN]

\* httpRequest: while (attempt <= retry) { fetch; on error attempt += 1 and
\* rethrow if attempt > retry }; posts counts the fetch calls made
RECURSIVE httpRequestFrom(_, _, _)
httpRequestFrom(fetches, attempt, retry) ==
  IF attempt > retry THEN [ok |-> FALSE, posts |-> attempt]
  ELSE IF fetches[attempt + 1] THEN [ok |-> TRUE, posts |-> attempt + 1]
  ELSE IF attempt + 1 > retry THEN [ok |-> FALSE, posts |-> attempt + 1]
  ELSE httpRequestFrom(fetches, attempt + 1, retry)

httpRequest(fetches, retry) == httpRequestFrom(fetches, 0, retry)

\* EventPublisher.publish: the error of redis.publish is logged, not rethrown
publish(redisOk) == [delivered |-> redisOk, raised |-> FALSE]

emitUnguarded(url, fetches) ==
  IF ~url THEN [posts |-> 0, delivered |-> FALSE, raised |-> FALSE]
  ELSE LET r == httpRequest(fetches, WEBHOOK_RETRY) IN
       [posts |-> r.posts, delivered |-> r.ok, raised |-> ~r.ok]

\* WebhookNotifier.emit: nothing without WEBHOOK_URL; the error of httpRequest is
\* logged, not rethrown
emit(url, fetches) ==
  IF ~url THEN [posts |-> 0, delivered |-> FALSE, raised |-> FALSE]
  ELSE LET r == httpRequest(fetches, WEBHOOK_RETRY) IN
       [posts |-> r.posts, delivered |-> r.ok, raised |-> FALSE]

\* what became of one lifecycle event: publish, then emit unless publish raised
Delivery(redisOk, url, fetches) ==
  LET p == publish(redisOk)
      w == emit(url, fetches) IN
  [redis |-> p.delivered,
   posts |-> IF p.raised THEN 0 ELSE w.posts,
   webhook |-> ~p.raised /\ w.delivered,
   raised |-> p.raised \/ w.raised]

\* Redis up and no WEBHOOK_URL configured
Delivered == Delivery(TRUE, FALSE, [k \in 1..(WEBHOOK_RETRY + 2) |-> TRUE])

NotifyCompletedRawCounts(j) ==
  /\ AtPc(j, "notify")
  /\ published' = Emit(published, "tagging.completed", j.runId, FALSE,
                       Len(j.response.repository_tags),
                       CountFileTags(j.response.file_tags), Delivered)
  /\ queue' = Replace(queue, j, [j EXCEPT !.state = "completed", !.pc = "idle"])
  /\ UNCHANGED <<now, jobs, job_runs, tag_assignments, repositoryListener, lastEvent, faults, recency, scheduler, subscriber, call, worker>>

\* events.publish('tagging.completed'); webhook.emit; return: the job completes.
\* Both calls are inside the try block: an error they raised would reach the catch
NotifyCompletedWith(j, redisOk, url, fetches) ==
  LET d == Delivery(redisOk, url, fetches) IN
  /\ AtPc(j, "notify")
  /\ published' = Emit(published, "tagging.completed", j.runId, FALSE,
                       Len(j.repositoryTags), CountFileTags(j.fileTags), d)
  /\ queue' = Replace(queue, j,
                IF d.raised THEN Raise(j, HttpFailure)
                ELSE [j EXCEPT !.state = "completed", !.pc = "idle"])
  /\ UNCHANGED <<now, jobs, job_runs, tag_assignments, repositoryListener, lastEvent, faults, recency, scheduler, subscriber, call, worker>>

NotifyCompleted(j) ==
  NotifyCompletedWith(j, TRUE, FALSE, [k \in 1..(WEBHOOK_RETRY + 2) |-> TRUE])

\* a catch block that goes on to the notifications when completeJobRun raises
CatchNotifyingAnyway(j, fault) ==
  /\ AtPc(j, "catch")
  /\ fault # "none" => faults < MaxStoreFaults
  /\ faults' = IF fault # "none" THEN faults + 1 ELSE faults
  /\ LET written == completeJobRun_run(job_runs, j.runId, "failed", now,
                                        j.message, j.prompt, j.raw) IN
       job_runs' = CASE fault = "none" -> written
                     [] fault = "run" -> completeJobRun_raised(job_runs, j.runId)
                     [] fault = "job" -> completeJobRun_raised(written, j.runId)
  /\ jobs' = IF fault = "none"
               THEN completeJobRun_job(jobs, job_runs, j.runId, "failed")
               ELSE jobs
  /\ queue' = Replace(queue, j, [j EXCEPT !.pc = "notifyFailed"])
  /\ UNCHANGED <<now, tag_assignments, published, repositoryListener, lastEvent, recency, scheduler, subscriber, call, worker>>

\* catch: completeJobRun(jobRun.id, {status: 'failed', errorMessage, ...});
\* when it raises, its error leaves process() and nothing is published.
\* fault "run": the UPDATE of job_runs raises; fault "job": the UPDATE of jobs
\* raises after the job_runs row was written
Catch(j, fault) ==
  /\ AtPc(j, "catch")
  /\ fault # "none" => faults < MaxStoreFaults
  /\ faults' = IF fault # "none" THEN faults + 1 ELSE faults
  /\ LET written == completeJobRun_run(job_runs, j.runId, "failed", now,
                                        j.message, j.prompt, j.raw) IN
       job_runs' = CASE fault = "none" -> written
                     [] fault = "run" -> completeJobRun_raised(job_runs, j.runId)
                     [] fault = "job" -> completeJobRun_raised(written, j.runId)
  /\ jobs' = IF fault = "none"
               THEN completeJobRun_job(jobs, job_runs, j.runId, "failed")
               ELSE jobs
  /\ queue' = Replace(queue, j,
                IF fault # "none"
                  THEN [j EXCEPT !.err = StoreFailure, !.message = StoreFailure,
                                 !.pc = "throw"]
                  ELSE [j EXCEPT !.pc = "notifyFailed"])
  /\ UNCHANGED <<now, tag_assignments, published, repositoryListener, lastEvent, recency, scheduler, subscriber, call, worker>>

\* const transient = error instanceof TransientJobError
IsTransient(e) == e = Transient

NotifyFailedSilent(j) ==
  /\ AtPc(j, "notifyFailed")
  /\ queue' = Replace(queue, j, [j EXCEPT !.pc = "throw"])
  /\ UNCHANGED <<now, jobs, job_runs, tag_assignments, published, repositoryListener,
                 lastEvent, faults, recency, scheduler, subscriber, call, worker>>

\* catch: events.publish('tagging.failed'); webhook.emit; throw error
NotifyFailedWith(j, redisOk, url, fetches) ==
  LET d == Delivery(redisOk, url, fetches) IN
  /\ AtPc(j, "notifyFailed")
  /\ published' = Emit(published, "tagging.failed", j.runId, IsTransient(j.err), 0, 0, d)
  /\ queue' = Replace(queue, j,
                IF d.raised
                  THEN [j EXCEPT !.err = HttpFailure, !.message = HttpFailure, !.pc = "throw"]
                  ELSE [j EXCEPT !.pc = "throw"])
  /\ UNCHANGED <<now, jobs, job_runs, tag_assignments, repositoryListener, lastEvent, faults, recency, scheduler, subscriber, call, worker>>

NotifyFailed(j) ==
  NotifyFailedWith(j, TRUE, FALSE, [k \in 1..(WEBHOOK_RETRY + 2) |-> TRUE])

DiscardsNever(e) == FALSE

DiscardsEveryError(e) == TRUE

\* worker processor: if (error instanceof PermanentJobError) job.discard()
Discards(e) == e = Permanent

\* BullMQ moveToFailed: retry with backoff unless discarded or out of attempts
StateAfterFailure(j) ==
  IF Discards(j.err) \/ j.attemptsStarted >= attempts THEN "failed" ELSE "delayed"

Throw(j) ==
  /\ AtPc(j, "throw")
  /\ queue' = Replace(queue, j,
                [j EXCEPT !.state = StateAfterFailure(j), !.failedReason = j.err,
                          !.pc = "idle"])
  /\ UNCHANGED <<now, jobs, job_runs, tag_assignments, published, repositoryListener, lastEvent,
                 faults, recency, scheduler, subscriber, call, worker>>

\* the backoff delay of a delayed job has passed
BackoffElapsed(j) ==
  /\ j \in queue /\ j.state = "delayed"
  /\ queue' = Replace(queue, j, [j EXCEPT !.state = "waiting"])
  /\ UNCHANGED <<now, jobs, job_runs, tag_assignments, published, repositoryListener, lastEvent,
                 faults, recency, scheduler, subscriber, call, worker>>

\* removeOnComplete / removeOnFail: a finished job leaves the retained set once
\* enough later jobs of other repositories have finished
Trim(j) ==
  /\ j \in queue /\ j.state \in Finished
  /\ queue' = queue \ {j}
  /\ UNCHANGED <<now, jobs, job_runs, tag_assignments, published, repositoryListener, lastEvent,
                 faults, recency, scheduler, subscriber, call, worker>>

(* ============================ specification ============================ *)

\* raw tags in the order a response lists them
TagPool ==
  <<RawTag(<<"A">>, <<"b">>, Number(15)), RawTag(<<" ", "a", "-">>, <<"B", " ">>, NaN),
    RawTag(<<"-">>, <<"a">>, NoConfidence), RawTag(<<"1">>, <<"a">>, Number(5))>>

\* a response with n repository tags and one file with the same n tags
ResponseOf(n) ==
  [repository_tags |-> SubSeq(TagPool, 1, n),
   file_tags |-> IF n = 0 THEN <<>>
                 ELSE <<[path |-> "f1", tags |-> SubSeq(TagPool, 1, n)]>>]

\* the repository the full system is driven with
SystemRepos == {"r1"}

\* events that pass every filter of handleMessage but the recency gate
ReadyEvents(R) == {m \in Messages : /\ m.eventName = <<"repository", "updated">>
                                    /\ m.repositoryId \in R
                                    /\ m.ingestStatus = "ready"}

Init ==
  /\ now = 0
  /\ jobs = <<>>
  /\ job_runs = <<>>
  /\ tag_assignments = {}
  /\ queue = {}
  /\ published = {}
  /\ repositoryListener = FALSE
  /\ lastEvent = NoEvent
  /\ faults = 0
  /\ recency = NoProbe
  /\ scheduler = SchedulerIdle
  /\ subscriber = Subscribed
  /\ call = NoCall
  /\ worker = WorkerStarted

Admission ==
  \/ \E m \in ReadyEvents(SystemRepos) : handleMessage(m)
  \/ \E repo \in Summaries : repo.id \in SystemRepos /\ maybeEnqueueRepository(repo)
  \/ \E r \in SystemRepos : ManualRetry(r)

Worker ==
  \E j \in queue :
    \/ Pickup(j)
    \/ StartRun(j)
    \/ \E o \in {"ok", "noRepoUrl", "httpError"} : FetchMetadata(j, o)
    \/ \E ok \in BOOLEAN : Checkout(j, ok)
    \/ \E o \in ModelOutcomes, n \in 0..MaxTags :
         ModelCall(j, o, ResponseOf(n))
    \/ \E ok \in BOOLEAN : Apply(j, ok)
    \/ \E f \in BOOLEAN : Record(j, f)
    \/ \E f \in {"none", "run", "job"} : CompleteSucceeded(j, f)
    \/ NotifyCompleted(j)
    \/ \E f \in {"none", "run"} : Catch(j, f)
    \/ NotifyFailed(j)
    \/ Throw(j)
    \/ BackoffElapsed(j)
    \/ Trim(j)

\* API process and worker process on one repository, at one clock reading
Next == Admission \/ Worker

Spec == Init /\ [][Next]_vars

(* --------------- two repositories in the worker at once ---------------- *)

\* both repositories are enqueued and processed concurrently; an execution either
\* succeeds, or fails at the checkout, and the store may fail in the catch block
NextConcurrent ==
  \/ \E m \in ReadyEvents(Repos) : handleMessage(m)
  \/ \E r \in Repos : ManualRetry(r)
  \/ \E j \in queue :
       \/ Pickup(j)
       \/ StartRun(j)
       \/ FetchMetadata(j, "ok")
       \/ \E ok \in BOOLEAN : Checkout(j, ok)
       \/ ModelCall(j, "ok", ResponseOf(MaxTags))
       \/ Apply(j, TRUE)
       \/ Record(j, FALSE)
       \/ CompleteSucceeded(j, "none")
       \/ NotifyCompleted(j)
       \/ \E f \in {"none", "run"} : Catch(j, f)
       \/ NotifyFailed(j)
       \/ Throw(j)
       \/ BackoffElapsed(j)

SpecConcurrent == Init /\ [][NextConcurrent]_vars

(* ------------- every statement of the audit store may fail ------------- *)

\* one repository, enqueued by an event; an execution succeeds or fails at the
\* checkout, and recordTagAssignments and either UPDATE of completeJobRun, in the
\* try block and in the catch block, may raise
NextSeal ==
  \/ \E m \in ReadyEvents(SystemRepos) : handleMessage(m)
  \/ \E j \in queue :
       \/ Pickup(j)
       \/ StartRun(j)
       \/ FetchMetadata(j, "ok")
       \/ \E ok \in BOOLEAN : Checkout(j, ok)
       \/ ModelCall(j, "ok", ResponseOf(MaxTags))
       \/ Apply(j, TRUE)
       \/ \E f \in BOOLEAN : Record(j, f)
       \/ \E f \in {"none", "run", "job"} : CompleteSucceeded(j, f)
       \/ NotifyCompleted(j)
       \/ \E f \in {"none", "run", "job"} : Catch(j, f)
       \/ NotifyFailed(j)
       \/ Throw(j)
       \/ BackoffElapsed(j)

SpecSeal == Init /\ [][NextSeal]_vars

(* ------------- Redis and the webhook endpoint may be down --------------- *)

\* one repository; an execution succeeds or fails in the model call, with either
\* error class, and every lifecycle event meets any answer of Redis and of the
\* webhook endpoint
NextNotify ==
  \/ \E m \in ReadyEvents(SystemRepos) : handleMessage(m)
  \/ \E j \in queue :
       \/ Pickup(j)
       \/ StartRun(j)
       \/ FetchMetadata(j, "ok")
       \/ Checkout(j, TRUE)
       \/ \E o \in ModelOutcomes :
            ModelCall(j, o, ResponseOf(MaxTags))
       \/ Apply(j, TRUE)
       \/ Record(j, FALSE)
       \/ CompleteSucceeded(j, "none")
       \/ \E redisOk \in BOOLEAN, url \in BOOLEAN, fetches \in Fetches :
            NotifyCompletedWith(j, redisOk, url, fetches)
       \/ Catch(j, "none")
       \/ \E redisOk \in BOOLEAN, url \in BOOLEAN, fetches \in Fetches :
            NotifyFailedWith(j, redisOk, url, fetches)
       \/ Throw(j)
       \/ BackoffElapsed(j)
       \/ Trim(j)

SpecNotify == Init /\ [][NextNotify]_vars

(* ------------------ a model call that fails and recovers ---------------- *)

TagLists(n) == UNION {[1..k -> RawTags] : k \in 0..n}

\* responses with up to MaxTags + 1 repository tags and up to two files of up to
\* MaxTags tags each
Responses ==
  {[repository_tags |-> tags,
    file_tags |-> [i \in DOMAIN files |->
                     [path |-> <<"f", i>>, tags |-> files[i]]]] :
     tags \in TagLists(MaxTags + 1),
     files \in UNION {[1..k -> TagLists(MaxTags)] : k \in 0..2}}

\* one repository, enqueued by an event; the only failure is the model request
NextRetry ==
  \/ \E m \in ReadyEvents(SystemRepos) : handleMessage(m)
  \/ \E j \in queue :
       \/ Pickup(j)
       \/ StartRun(j)
       \/ FetchMetadata(j, "ok")
       \/ Checkout(j, TRUE)
       \/ /\ AtPc(j, "model")
          /\ \E o \in {"ok", "requestFailed"}, response \in Responses :
               ModelCall(j, o, response)
       \/ Apply(j, TRUE)
       \/ Record(j, FALSE)
       \/ CompleteSucceeded(j, "none")
       \/ NotifyCompleted(j)
       \/ Catch(j, "none")
       \/ NotifyFailed(j)
       \/ Throw(j)
       \/ BackoffElapsed(j)

SpecRetry == Init /\ [][NextRetry]_vars

(* ---------------- the API process on a populated store ----------------- *)

RepoSeq == <<"r1", "r2">>

\* a row as startJobRun and completeJobRun leave it
StoredRun(jobId, status, t) ==
  [job_id |-> jobId, status |-> status,
   started_at |-> IF status = "running" THEN 0 ELSE t,
   completed_at |-> IF status = "running" THEN NullTime ELSE t,
   error_message |-> IF status = "failed" THEN Transient ELSE NoError,
   prompt |-> status # "running", raw_response |-> status = "succeeded",
   seals |-> IF status = "running" THEN 0 ELSE 1, sealErrors |-> 0]

StoredRuns(statuses, times) ==
  {StoredRun(jobId, status, t) :
     jobId \in DOMAIN RepoSeq, status \in statuses, t \in times}

StoredSeqs(rows) == UNION {[1..n -> rows] : n \in 0..MaxStoredRuns}

\* the jobs rows that go with the runs rs
StoredJobs(rs) ==
  [i \in DOMAIN RepoSeq |->
     LET mine == {k \in DOMAIN rs : rs[k].job_id = i} IN
     [repository_id |-> RepoSeq[i],
      status |-> IF mine = {} THEN "queued"
                 ELSE rs[CHOOSE k \in mine : \A l \in mine : l <= k].status,
      runs |-> Cardinality(mine),
      last_run_at |-> IF mine = {} THEN NullTime
                      ELSE rs[CHOOSE k \in mine : \A l \in mine : l <= k].started_at]]

InitApi ==
  /\ now = ClockStep
  /\ job_runs \in StoredSeqs(StoredRuns({"succeeded", "failed"}, {0, ClockStep}))
  /\ jobs = StoredJobs(job_runs)
  /\ tag_assignments = {}
  /\ queue = {}
  /\ published = {}
  /\ repositoryListener = TRUE
  /\ lastEvent = NoEvent
  /\ faults = 0
  /\ recency = NoProbe
  /\ scheduler = SchedulerIdle
  /\ subscriber = Subscribed
  /\ call = NoCall
  /\ worker = WorkerStarted

NextApi ==
  \/ \E m \in Messages : handleMessage(m)
  \/ \E repo \in Summaries : maybeEnqueueRepository(repo)
  \/ \E r \in Repos : ManualRetry(r)
  \/ Tick

\* the API process alone, with a listener registered, as the clock advances
SpecApi == InitApi /\ [][NextApi]_vars

(* ------------------- hasRecentSuccessfulRun on any store ---------------- *)

ProbeTime == FALLBACK_RECENCY_WINDOW_MS + 1

\* completion times around both windows, and one in the future
ProbeTimes == {ProbeTime - FALLBACK_RECENCY_WINDOW_MS - 1,
               ProbeTime - FALLBACK_RECENCY_WINDOW_MS,
               ProbeTime - RECENCY_WINDOW_MS - 1,
               ProbeTime - RECENCY_WINDOW_MS,
               ProbeTime, ProbeTime + 1}

InitRecency ==
  /\ now = ProbeTime
  /\ job_runs \in StoredSeqs(StoredRuns({"running", "succeeded", "failed"}, ProbeTimes))
  /\ jobs = StoredJobs(job_runs)
  /\ tag_assignments = {}
  /\ queue = {}
  /\ published = {}
  /\ repositoryListener = FALSE
  /\ lastEvent = NoEvent
  /\ faults = 0
  /\ recency = NoProbe
  /\ scheduler = SchedulerIdle
  /\ subscriber = Subscribed
  /\ call = NoCall
  /\ worker = WorkerStarted

NextRecency ==
  \E r \in Repos, w \in {RECENCY_WINDOW_MS, FALLBACK_RECENCY_WINDOW_MS} : Probe(r, w)

SpecRecency == InitRecency /\ [][NextRecency]_vars

(* -------------------- the subscriber on any message -------------------- *)

\* a subscriber that is not started yet, with a listener, on a store of at most one
\* sealed run
InitSubscriber ==
  /\ now = ClockStep
  /\ job_runs \in UNION {[1..n -> StoredRuns({"succeeded", "failed"}, {0, ClockStep})] :
                           n \in 0..1}
  /\ jobs = StoredJobs(job_runs)
  /\ tag_assignments = {}
  /\ queue = {}
  /\ published = {}
  /\ repositoryListener = TRUE
  /\ lastEvent = NoEvent
  /\ faults = 0
  /\ recency = NoProbe
  /\ scheduler = SchedulerIdle
  /\ subscriber = [Subscribed EXCEPT !.listening = FALSE, !.subscribed = FALSE]
  /\ call = NoCall
  /\ worker = WorkerStarted

NextSubscriber ==
  \/ SubscriberStart
  \/ SubscriberStop
  \/ \E raw \in RawMessages : messageListener(raw)

SpecSubscriber == InitSubscriber /\ [][NextSubscriber]_vars

(* --------------------- the scheduler on a catalog ---------------------- *)

\* a listed entry the scheduler passes over without reading the store
Filler == [id |-> NoString, ingestStatus |-> "pending"]

\* a catalog of len entries: first, then fillers, then last
CatalogOf(len, first, last) ==
  [k \in 1..len |-> IF k = 1 THEN first ELSE IF k = len THEN last ELSE Filler]

\* catalogs that are empty, shorter than a page, one page, and longer, with r1
\* listed first in any ingest status and r2 listed last
Catalogs ==
  {<<>>} \cup
  {CatalogOf(len, [id |-> "r1", ingestStatus |-> st], [id |-> "r2", ingestStatus |-> "ready"]) :
     len \in {2, perPage - 1, perPage, perPage + 1, 2 * perPage},
     st \in IngestStatuses}

\* the completed jobs of the succeeded runs rs, as removeOnComplete: 1000 retains
\* them in the queue
RetainedJobs(rs) ==
  {[NewJob(RepoSeq[rs[i].job_id], "event") EXCEPT !.state = "completed",
                                                   !.attemptsStarted = 1,
                                                   !.runsCreated = 1,
                                                   !.runId = i] :
     i \in {k \in DOMAIN rs : rs[k].status = "succeeded"}}

\* the store holds at most one sealed run, which ended 36 or 24 hours ago, and the
\* queue may still retain the job of a succeeded one
InitScheduler ==
  /\ now = FALLBACK_RECENCY_WINDOW_MS + ClockStep
  /\ job_runs \in UNION {[1..n -> StoredRuns({"succeeded", "failed"}, {0, ClockStep})] :
                           n \in 0..1}
  /\ jobs = StoredJobs(job_runs)
  /\ tag_assignments = {}
  /\ queue \in {{}, RetainedJobs(job_runs)}
  /\ published = {}
  /\ repositoryListener = FALSE
  /\ lastEvent = NoEvent
  /\ faults = 0
  /\ recency = NoProbe
  /\ scheduler \in {[SchedulerIdle EXCEPT !.catalog = c] : c \in Catalogs}
  /\ subscriber = Subscribed
  /\ call = NoCall
  /\ worker = WorkerStarted

SchedulerStep ==
  \E i \in DOMAIN scheduler.cycles, ok \in BOOLEAN :
    \/ ListRepositories(i, ok)
    \/ VisitRepository(i, ok)

NextScheduler ==
  \/ start
  \/ stop
  \/ TimerFires
  \/ SchedulerStep

\* the scheduler alone: every catalog call and every queue.add may raise
SpecScheduler == InitScheduler /\ [][NextScheduler]_vars

(* ---------------- the scheduler as a backstop, fairly ------------------- *)

InitSchedulerLive ==
  /\ InitScheduler
  /\ Len(scheduler.catalog) \in {2, perPage + 1}

\* listRepositories returns the given page
ListSucceeds(page) ==
  \E i \in DOMAIN scheduler.cycles :
    scheduler.cycles[i].page = page /\ ListRepositories(i, TRUE)

\* the visit of repository r returns: queue.add, if called, did not raise
VisitSucceeds(r) ==
  \E i \in DOMAIN scheduler.cycles :
    /\ scheduler.cycles[i].active /\ scheduler.cycles[i].pc = "visit"
    /\ scheduler.cycles[i].repos[scheduler.cycles[i].next].id = r
    /\ VisitRepository(i, TRUE)

\* no pub/sub event arrives and the scheduler is never stopped
NextSchedulerLive ==
  \/ start
  \/ TimerFires
  \/ SchedulerStep

\* the server starts the scheduler, the interval timer keeps firing, every call a
\* cycle awaits settles, and a call made again and again keeps succeeding
SpecSchedulerLive ==
  /\ InitSchedulerLive
  /\ [][NextSchedulerLive]_vars
  /\ WF_vars(start)
  /\ WF_vars(TimerFires)
  /\ WF_vars(SchedulerStep)
  /\ \A page \in 1..2 : SF_vars(ListSucceeds(page))
  /\ \A r \in Repos : SF_vars(VisitSucceeds(r))

(* ------------------- the store operations in any order ----------------- *)

CallUpsertJob(r) ==
  /\ jobs' = upsertJob(jobs, r)
  /\ UNCHANGED <<now, job_runs, tag_assignments, queue, published,
                 repositoryListener, lastEvent, faults, recency, scheduler, subscriber, call, worker>>

CallStartJobRun(jobId) ==
  /\ jobId \in DOMAIN jobs
  /\ Len(job_runs) < MaxStoredRuns
  /\ job_runs' = startJobRun_runs(job_runs, jobId, now)
  /\ jobs' = startJobRun_jobs(jobs, jobId, now)
  /\ UNCHANGED <<now, tag_assignments, queue, published, repositoryListener,
                 lastEvent, faults, recency, scheduler, subscriber, call, worker>>

\* completeJobRun(runId, {status}); a row is completed at most twice
CallCompleteJobRun(runId, status) ==
  /\ runId \in DOMAIN job_runs
  /\ job_runs[runId].seals < 2
  /\ job_runs' = completeJobRun_run(job_runs, runId, status, now,
                                    IF status = "failed" THEN Transient ELSE NoError,
                                    TRUE, status = "succeeded")
  /\ jobs' = completeJobRun_job(jobs, job_runs, runId, status)
  /\ UNCHANGED <<now, tag_assignments, queue, published, repositoryListener,
                 lastEvent, faults, recency, scheduler, subscriber, call, worker>>

NextStore ==
  \/ \E r \in Repos : CallUpsertJob(r)
  \/ \E jobId \in DOMAIN jobs : CallStartJobRun(jobId)
  \/ \E runId \in DOMAIN job_runs, status \in {"succeeded", "failed"} :
       CallCompleteJobRun(runId, status)
  \/ Tick

\* the audit store under any sequence of its mutating operations
SpecStore == Init /\ [][NextStore]_vars

(* ------------------ the pure functions, called directly ----------------- *)

\* TagPayload values: spellings that normalize to one tag, keys and values that
\* normalize to the empty string, separators inside and around a key, and
\* confidences that are absent, NaN, below 0, inside [0,1] and above 1
TagPayloads ==
  RawTags \cup {RawTag(<<"a", "-", "_", "B">>, <<"b", ":", "a">>, Number(0 - 5)),
                RawTag(<<"1">>, <<" ">>, Number(5)),
                RawTag(<<"A">>, <<"a">>, Number(5))}

\* TagPayload[] of up to n entries
TagPayloadLists(n) == UNION {[1..k -> TagPayloads] : k \in 0..n}

\* FileTagPayload values and FileTagPayload[] of up to two files
FileTagPayloads == [path : {"f1", "f2"}, tags : TagPayloadLists(MaxTags)]

FileTagPayloadLists == UNION {[1..k -> FileTagPayloads] : k \in 0..2}

CallNormalizeRepositoryTags(tags) ==
  /\ call' = [fn |-> "normalizeRepositoryTags", input |-> tags,
              output |-> normalizeRepositoryTags(tags)]
  /\ UNCHANGED <<now, jobs, job_runs, tag_assignments, queue, published,
                 repositoryListener, lastEvent, faults, recency, scheduler, subscriber, worker>>

CallNormalizeFileTags(fileTags) ==
  /\ call' = [fn |-> "normalizeFileTags", input |-> fileTags,
              output |-> normalizeFileTags(fileTags)]
  /\ UNCHANGED <<now, jobs, job_runs, tag_assignments, queue, published,
                 repositoryListener, lastEvent, faults, recency, scheduler, subscriber, worker>>

\* one call, on a fresh process
NextNormalize ==
  /\ call.fn = "none"
  /\ \/ \E tags \in TagPayloadLists(MaxTagList) : CallNormalizeRepositoryTags(tags)
     \/ \E fileTags \in FileTagPayloadLists : CallNormalizeFileTags(fileTags)

\* tag normalization on every bounded input
SpecNormalize == Init /\ [][NextNormalize]_vars

(* ------------------------------ tag diff -------------------------------- *)

\* diffRepositoryTags that removes every existing tag
diffRepositoryTagsRemovingAll(newTags, existingTags) ==
  [apply |-> newTags,
   remove |-> [i \in DOMAIN existingTags |->
                 [key |-> existingTags[i].key, value |-> existingTags[i].value]]]

diffRepositoryTags(newTags, existingTags) ==
  LET newSignatures == {Signature(newTags[i].key, newTags[i].value) : i \in DOMAIN newTags}
      NotNew(tag) == Signature(tag.key, tag.value) \notin newSignatures
      removed == SelectSeq(existingTags, NotNew) IN
  [apply |-> newTags,
   remove |-> [i \in DOMAIN removed |->
                 [key |-> removed[i].key, value |-> removed[i].value]]]

diffFileTags(newTags) == [apply |-> newTags, remove |-> <<>>]

\* tags as a caller may pass them, normalized or not: two tags with one key, one
\* tag under two confidences, and two tags whose signatures `${key}:${value}` are
\* the same text
DiffTagPayloads ==
  {RawTag(<<"a">>, <<"b">>, Number(5)),
   RawTag(<<"a">>, <<"b">>, NoConfidence),
   RawTag(<<"a">>, <<"a">>, NoConfidence),
   RawTag(<<"a">>, <<"b", ":", "a">>, NoConfidence),
   RawTag(<<"a", ":", "b">>, <<"a">>, NoConfidence)}

DiffTagLists == UNION {[1..k -> DiffTagPayloads] : k \in 0..(MaxTags + 1)}

CallDiffRepositoryTags(newTags, existingTags) ==
  /\ call' = [fn |-> "diffRepositoryTags",
              input |-> [newTags |-> newTags, existingTags |-> existingTags],
              output |-> diffRepositoryTags(newTags, existingTags)]
  /\ UNCHANGED <<now, jobs, job_runs, tag_assignments, queue, published,
                 repositoryListener, lastEvent, faults, recency, scheduler, subscriber, worker>>

CallDiffFileTags(newTags) ==
  /\ call' = [fn |-> "diffFileTags",
              input |-> [newTags |-> newTags, existingTags |-> <<>>],
              output |-> diffFileTags(newTags)]
  /\ UNCHANGED <<now, jobs, job_runs, tag_assignments, queue, published,
                 repositoryListener, lastEvent, faults, recency, scheduler, subscriber, worker>>

\* one call, on a fresh process
NextDiff ==
  /\ call.fn = "none"
  /\ \/ \E newTags, existingTags \in DiffTagLists :
          CallDiffRepositoryTags(newTags, existingTags)
     \/ \E newTags \in FileTagPayloadLists : CallDiffFileTags(newTags)

\* the tag diff on every bounded pair of lists
SpecDiff == Init /\ [][NextDiff]_vars

(* ---------------- what a response's confidences are stored as ----------- *)

\* the confidences a tag of a response may carry: none, null, NaN, numbers below,
\* inside and above [0,1], and a string that is not a numeral
Confidences ==
  {NoConfidence, Null, NaN, Number(0 - 5), Number(0), Number(5), Number(10),
   Number(15), Text}

\* responses that pass the checks of generateTags: up to MaxTags repository tags
\* and at most one file with one tag, under every confidence
ConfidenceResponses ==
  {[repository_tags |-> [i \in DOMAIN cs |-> RawTag(<<"a">>, <<<<"a", "b", "1">>[i]>>, cs[i])],
    file_tags |-> [i \in DOMAIN fs |->
                     [path |-> "f1", tags |-> <<RawTag(<<"a">>, <<"b">>, fs[i])>>]]] :
     cs \in UNION {[1..k -> Confidences] : k \in 0..MaxTags},
     fs \in UNION {[1..k -> Confidences] : k \in 0..1}}

\* one repository, enqueued by an event; every call succeeds
NextConfidence ==
  \/ \E m \in ReadyEvents(SystemRepos) : handleMessage(m)
  \/ \E j \in queue :
       \/ Pickup(j)
       \/ StartRun(j)
       \/ FetchMetadata(j, "ok")
       \/ Checkout(j, TRUE)
       \/ /\ AtPc(j, "model")
          /\ \E response \in ConfidenceResponses : ModelCall(j, "ok", response)
       \/ Apply(j, TRUE)
       \/ Record(j, FALSE)
       \/ CompleteSucceeded(j, "none")
       \/ NotifyCompleted(j)

SpecConfidence == Init /\ [][NextConfidence]_vars

(* -------------------------- prompt interpolation ------------------------ *)

\* names a template may put between braces: two that buildPrompt supplies, one
\* that nobody supplies, and one that every object inherits from Object.prototype
Words == {"existingTags", "fileSummaries", "missing", "constructor"}

\* a template is a sequence of tokens: braces, a space, a character that is
\* neither \w nor \s, and words
Tokens == {"{{", "}}", " ", "-"} \cup Words

\* the templates of up to MaxTemplate tokens; a word is a maximal run of \w, so no
\* two words are adjacent
Templates ==
  {t \in UNION {[1..k -> Tokens] : k \in 0..MaxTemplate} :
     \A i \in 1..(Len(t) - 1) : ~(t[i] \in Words /\ t[i + 1] \in Words)}

\* the replacements object: own properties for some of the names buildPrompt uses
Replacements ==
  {[key \in names |-> IF key = "existingTags" THEN "- a: b" ELSE "## f1 snippet"] :
     names \in SUBSET {"existingTags", "fileSummaries"}}

\* what String(Object.prototype[key]) is, for the inherited name of the model
ObjectPrototype == [constructor |-> "function Object() { [native code] }"]

\* replacements[key] ?? '': an own property, else an inherited one, else ''
Get(replacements, key) ==
  IF key \in DOMAIN replacements THEN replacements[key]
  ELSE IF key \in DOMAIN ObjectPrototype THEN ObjectPrototype[key]
  ELSE ""

\* a replacement as output tokens: the empty string adds none
Piece(text) == IF text = "" THEN <<>> ELSE <<text>>

RECURSIVE Render(_, _)
\* template.replace(/{{\s*(\w+)\s*}}/g, ...): at each match, left to right, the
\* value for the captured word; every other token is copied
Render(template, values) ==
  IF template = <<>> THEN <<>>
  ELSE LET inner == DropWhileStart({" "}, Tail(template))
           after == IF inner = <<>> THEN <<>> ELSE DropWhileStart({" "}, Tail(inner))
           matches == /\ Head(template) = "{{"
                      /\ inner # <<>> /\ Head(inner) \in Words
                      /\ after # <<>> /\ Head(after) = "}}" IN
       IF matches THEN Piece(values[Head(inner)]) \o Render(Tail(after), values)
       ELSE <<Head(template)>> \o Render(Tail(template), values)

interpolate(template, replacements) ==
  Render(template, [key \in Words |-> Get(replacements, key)])

CallInterpolate(template, replacements) ==
  /\ call' = [fn |-> "interpolate",
              input |-> [template |-> template, replacements |-> replacements],
              output |-> interpolate(template, replacements)]
  /\ UNCHANGED <<now, jobs, job_runs, tag_assignments, queue, published,
                 repositoryListener, lastEvent, faults, recency, scheduler, subscriber, worker>>

\* one call, on a fresh process
NextPrompt ==
  /\ call.fn = "none"
  /\ \E template \in Templates, replacements \in Replacements :
       CallInterpolate(template, replacements)

\* interpolate on every bounded template and replacements object
SpecPrompt == Init /\ [][NextPrompt]_vars

(* ------------------ one model call, request by request ------------------ *)

\* retry and retryDelayMs options generateTags passes to httpRequest
MODEL_RETRY == 2

MODEL_RETRY_DELAY_MS == 500

\* an error that is neither a TransientJobError nor a PermanentJobError
TypeError == "TypeError"

\* what one POST to chat/completions comes to: fetch rejects; a status that is not
\* 2xx; a 200 whose body is not JSON, is empty, or is the JSON null; a 200 whose
\* JSON body has no choices[0].message.content; a 200 whose content is not JSON,
\* is the JSON null, or is JSON without a repository_tags array; a usable answer
ModelAnswers ==
  {"network", "httpError", "bodyNotJson", "emptyBody", "nullBody", "noContent",
   "contentNotJson", "contentNull", "noRepositoryTags", "ok"}

\* the try block of httpRequest's loop throws: fetch rejected, !response.ok, or
\* JSON.parse(text) threw
FetchFails(answer) == answer \in {"network", "httpError", "bodyNotJson"}

\* the setTimeout waits of httpRequest after its first posts - 1 failed fetches:
\* retryDelayMs * attempt, attempt already incremented
Delays(posts, retryDelayMs) == [k \in 1..(posts - 1) |-> retryDelayMs * k]

\* the error generateTags throws on the value httpRequest returned
ContentError(body) ==
  CASE body \in {"emptyBody", "nullBody"} -> TypeError
    [] body = "noContent" -> Permanent
    [] body = "contentNotJson" -> Permanent
    [] body = "contentNull" -> TypeError
    [] body = "noRepositoryTags" -> Permanent
    [] OTHER -> NoError

\* AiClient.generateTags against the answers the endpoint gives to successive
\* POSTs: the requests made, the waits between them and the error thrown
generateTags(answers) ==
  LET r == httpRequest([k \in DOMAIN answers |-> ~FetchFails(answers[k])], MODEL_RETRY) IN
  [requests |-> r.posts,
   delays |-> Delays(r.posts, MODEL_RETRY_DELAY_MS),
   error |-> IF r.ok THEN ContentError(answers[r.posts]) ELSE Transient]

\* the answers the endpoint would give to one more POST than a call can make
AnswerLists == [1..(MODEL_RETRY + 2) -> ModelAnswers]

\* one generateTags call in an execution that has attempts left; the worker's
\* processor then discards the job or leaves it to the queue's retry
CallGenerateTags(answers) ==
  /\ call' = [fn |-> "generateTags", input |-> answers,
              output |-> generateTags(answers),
              discarded |-> Discards(generateTags(answers).error)]
  /\ UNCHANGED <<now, jobs, job_runs, tag_assignments, queue, published,
                 repositoryListener, lastEvent, faults, recency, scheduler, subscriber, worker>>

\* one call, on a fresh process
NextModelCall ==
  /\ call.fn = "none"
  /\ \E answers \in AnswerLists : CallGenerateTags(answers)

\* generateTags on every sequence of answers
SpecModelCall == Init /\ [][NextModelCall]_vars

(* ----------------- the tags sent to the catalog ------------------------- *)

SOURCE == "tagging-service"

\* a catalog tag without a source property
NoSource == "undefined"

\* !tag.source || tag.source === SOURCE: no source, the empty string, or SOURCE
OwnSource(tag) == tag.source \in {NoSource, ""} \/ tag.source = SOURCE

\* the {key, value} object the map of selectTaggingServiceTags builds
KeyValueOf(tag) == RawTag(tag.key, tag.value, NoConfidence)

selectTaggingServiceTags(tags) ==
  LET own == SelectSeq(tags, OwnSource) IN
  normalizeRepositoryTags([i \in DOMAIN own |-> KeyValueOf(own[i])])

\* the body applyRepositoryTags posts to the catalog; nothing is posted when both
\* lists are empty
applyRepositoryTags(tags, remove) ==
  [posted |-> tags # <<>> \/ remove # <<>>,
   tags |-> IF tags = <<>> /\ remove = <<>> THEN <<>>
            ELSE [i \in DOMAIN tags |->
                    [key |-> tags[i].key, value |-> tags[i].value, source |-> SOURCE,
                     confidence |-> tags[i].confidence]],
   remove |-> remove]

\* tags the catalog may hold for a repository: one tag in two spellings of its
\* key, and another value, each without source, from this service or from manual
\* tagging
CatalogTags ==
  [key : {<<"a">>, <<"A">>}, value : {<<"b">>}, source : {NoSource, SOURCE, "manual"}]
    \cup [key : {<<"a">>}, value : {<<"1">>}, source : {"", "manual"}]

CatalogTagLists == UNION {[1..k -> CatalogTags] : k \in 0..(MaxTags + 1)}

\* process() from the metadata to the catalog write: the tags of the metadata
\* and of the model response become one POST body
CallApplyRepositoryTags(metadataTags, responseTags) ==
  LET repositoryTags == normalizeRepositoryTags(responseTags)
      repoDiff == diffRepositoryTags(repositoryTags, selectTaggingServiceTags(metadataTags)) IN
  /\ call' = [fn |-> "applyRepositoryTags",
              input |-> [tags |-> metadataTags, repositoryTags |-> repositoryTags],
              output |-> applyRepositoryTags(repoDiff.apply, repoDiff.remove)]
  /\ UNCHANGED <<now, jobs, job_runs, tag_assignments, queue, published,
                 repositoryListener, lastEvent, faults, recency, scheduler, subscriber, worker>>

\* one execution, on a fresh process
NextCatalog ==
  /\ call.fn = "none"
  /\ \E metadataTags \in CatalogTagLists, responseTags \in TagLists(MaxTags + 1) :
       CallApplyRepositoryTags(metadataTags, responseTags)

\* the catalog write for every bounded catalog state and model response
SpecCatalog == Init /\ [][NextCatalog]_vars

(* ---------------- the shapes normalizeEvent reads ----------------------- *)

\* a JSON value that is not a string (a number, an object)
NotAString == "<number>"

\* typeof v === 'string'
IsString(v) == v # NotAString

\* no event name: the property is absent or not a string
NoName == <<NoString, NoString>>

\* parsed messages. event is typeof parsed.event, name its value when it is a
\* string; payload is payload.repository of the legacy shape; type and data are
\* event.type and event.data of the envelope shape, data.object telling whether
\* event.data is an object; an absent nested object is one without properties
ParsedMessages ==
  [event : {"string"},
   name : {<<"repository", "updated">>, <<"build", "finished">>},
   payload : [id : {NoString, "r1"}, ingestStatus : {NoString, "ready"}],
   type : {NoName},
   data : {[object |-> FALSE,
            repository |-> [id |-> NoString, ingestStatus |-> NoString],
            repositoryId |-> NoString, ingestStatus |-> NoString,
            event |-> [repositoryId |-> NoString, status |-> NoString]]}]
  \cup
  [event : {"object"},
   name : {NoName},
   payload : {[id |-> "r2", ingestStatus |-> "ready"]},
   type : {<<"repository", "updated">>, <<"build", "finished">>, NoName},
   data : [object : BOOLEAN,
           repository : [id : {NoString, NotAString, "r1"},
                         ingestStatus : {NoString, NotAString, "ready"}],
           repositoryId : {NoString, NotAString, "r2"},
           ingestStatus : {NoString, NotAString, "pending"},
           event : [repositoryId : {NoString, "r3"}, status : {NoString, "failed"}]]]
  \cup
  [event : {"undefined"},
   name : {NoName},
   payload : {[id |-> "r1", ingestStatus |-> "ready"]},
   type : {NoName},
   data : {[object |-> FALSE,
            repository |-> [id |-> NoString, ingestStatus |-> NoString],
            repositoryId |-> NoString, ingestStatus |-> NoString,
            event |-> [repositoryId |-> NoString, status |-> NoString]]}]

\* repositoryId after the reads of the envelope branch, wrong order: data.event
\* before data.repositoryId
EnvelopeRepositoryIdNestedFirst(data) ==
  LET fromRepository == IF IsString(data.repository.id) THEN data.repository.id
                        ELSE NoString
      fromNested == IF fromRepository = NoString /\ IsString(data.event.repositoryId)
                    THEN data.event.repositoryId ELSE fromRepository IN
  IF fromNested = NoString /\ IsString(data.repositoryId)
    THEN data.repositoryId ELSE fromNested

\* repositoryId after the three reads of the envelope branch: each later read
\* happens only while repositoryId is still falsy
EnvelopeRepositoryId(data) ==
  LET fromRepository == IF IsString(data.repository.id) THEN data.repository.id
                        ELSE NoString
      fromData == IF fromRepository = NoString /\ IsString(data.repositoryId)
                  THEN data.repositoryId ELSE fromRepository IN
  IF fromData = NoString /\ IsString(data.event.repositoryId)
    THEN data.event.repositoryId ELSE fromData

\* ingestStatus after the three reads of the envelope branch
EnvelopeIngestStatus(data) ==
  LET fromRepository == IF IsString(data.repository.ingestStatus)
                        THEN data.repository.ingestStatus ELSE NoString
      fromData == IF fromRepository = NoString /\ IsString(data.ingestStatus)
                  THEN data.ingestStatus ELSE fromRepository IN
  IF fromData = NoString /\ IsString(data.event.status)
    THEN data.event.status ELSE fromData

\* the three locals of normalizeEvent before its checks
ReadEvent(parsed) ==
  CASE parsed.event = "string" ->
         [eventName |-> parsed.name, repositoryId |-> parsed.payload.id,
          ingestStatus |-> parsed.payload.ingestStatus]
    [] parsed.event = "object" ->
         [eventName |-> parsed.type,
          repositoryId |-> IF parsed.data.object THEN EnvelopeRepositoryId(parsed.data)
                           ELSE NoString,
          ingestStatus |-> IF parsed.data.object THEN EnvelopeIngestStatus(parsed.data)
                           ELSE NoString]
    [] OTHER -> NoEvent

\* normalizeEvent: null (NoEvent) unless the name starts with "repository." and
\* a repository id was found
normalizeEvent(parsed) ==
  IF Dropped(ReadEvent(parsed)) THEN NoEvent ELSE ReadEvent(parsed)

CallNormalizeEvent(parsed) ==
  /\ call' = [fn |-> "normalizeEvent", input |-> parsed,
              read |-> ReadEvent(parsed), output |-> normalizeEvent(parsed)]
  /\ UNCHANGED <<now, jobs, job_runs, tag_assignments, queue, published,
                 repositoryListener, lastEvent, faults, recency, scheduler, subscriber, worker>>

\* one message, on a fresh process
NextEnvelope ==
  /\ call.fn = "none"
  /\ \E parsed \in ParsedMessages : CallNormalizeEvent(parsed)

\* normalizeEvent on every message shape
SpecEnvelope == Init /\ [][NextEnvelope]_vars

(* ------------------ the file summaries of the prompt -------------------- *)

MAX_FILES == 20

\* Array.prototype.slice(0, n) on a list of the given length
SliceLength(length, n) == IF length <= n THEN length ELSE n

RECURSIVE discoverLocalFilesFrom(_, _)
\* the walk of discoverLocalFiles over the directories still to be read, in the
\* order the stack yields them, each given by its number of files; the walk
\* ends when MAX_FILES paths are collected
discoverLocalFilesFrom(directories, results) ==
  IF directories = <<>> \/ results >= MAX_FILES THEN results
  ELSE discoverLocalFilesFrom(Tail(directories),
                              SliceLength(results + Head(directories), MAX_FILES))

discoverLocalFiles(directories) == discoverLocalFilesFrom(directories, 0)

\* the summaries the explorer branch collects: none when searchFiles rejects
ExplorerSummaries(search) ==
  IF search.ok THEN SliceLength(search.results, MAX_FILES) ELSE 0

\* gatherFileSummaries with the try block removed: the error of searchFiles
\* leaves the function
gatherFileSummariesRethrowing(search, checkout) ==
  LET summaries == ExplorerSummaries(search)
      local == summaries = 0 /\ checkout.exists IN
  [threw |-> ~search.ok \/ (local /\ ~checkout.readable),
   source |-> IF local THEN "local" ELSE "explorer",
   summaries |-> IF ~search.ok \/ (local /\ ~checkout.readable) THEN 0
                 ELSE SliceLength(IF local THEN discoverLocalFiles(checkout.directories)
                                  ELSE summaries, MAX_FILES)]

\* gatherFileSummaries: the number of summaries returned and where they came
\* from; it rejects only when readdir of the local walk does
gatherFileSummaries(search, checkout) ==
  LET summaries == ExplorerSummaries(search)
      local == summaries = 0 /\ checkout.exists IN
  [threw |-> local /\ ~checkout.readable,
   source |-> IF local THEN "local" ELSE "explorer",
   summaries |-> IF local /\ ~checkout.readable THEN 0
                 ELSE SliceLength(IF local THEN discoverLocalFiles(checkout.directories)
                                  ELSE summaries, MAX_FILES)]

\* answers of searchFiles: a rejection, or a list that may be longer than asked for
Searches == [ok : BOOLEAN, results : {0, 5, 20, 25}]

\* checkouts: present or not, readable or with a directory readdir fails on, of
\* up to three directories with no, a few or more than MAX_FILES files
Checkouts ==
  [exists : BOOLEAN, readable : BOOLEAN,
   directories : UNION {[1..k -> {0, 8, 21}] : k \in 1..3}]

\* process(): gatherFileSummaries, then buildPrompt unless it rejected
CallGatherFileSummaries(search, checkout) ==
  /\ call' = [fn |-> "gatherFileSummaries",
              input |-> [search |-> search, checkout |-> checkout],
              output |-> gatherFileSummaries(search, checkout),
              next |-> IF gatherFileSummaries(search, checkout).threw
                       THEN "catch" ELSE "buildPrompt"]
  /\ UNCHANGED <<now, jobs, job_runs, tag_assignments, queue, published,
                 repositoryListener, lastEvent, faults, recency, scheduler, subscriber, worker>>

\* one execution, on a fresh process
NextFiles ==
  /\ call.fn = "none"
  /\ \E search \in Searches, checkout \in Checkouts :
       CallGatherFileSummaries(search, checkout)

\* gatherFileSummaries on every answer of the explorer and every checkout
SpecFiles == Init /\ [][NextFiles]_vars

(* ------------------------ orderly shutdown ------------------------------ *)

\* restarts of the worker process
MaxRestarts == 1

\* SIGINT or SIGTERM in the worker process: shutdown() calls worker.close(), after
\* which the worker fetches no further job
ShutdownSignal ==
  /\ ~worker.closing /\ ~worker.exited
  /\ worker' = [worker EXCEPT !.closing = TRUE]
  /\ UNCHANGED <<now, jobs, job_runs, tag_assignments, queue, published, repositoryListener,
                 lastEvent, faults, recency, scheduler, subscriber, call>>

\* process.exit(0) without awaiting worker.close()
ExitWithoutWaiting ==
  /\ worker.closing /\ ~worker.exited
  /\ worker' = [worker EXCEPT !.exited = TRUE]
  /\ UNCHANGED <<now, jobs, job_runs, tag_assignments, queue, published, repositoryListener,
                 lastEvent, faults, recency, scheduler, subscriber, call>>

\* await worker.close() has resolved, which it does when no job is being
\* processed; process.exit(0)
Exit ==
  /\ worker.closing /\ ~worker.exited
  /\ Active(queue) = {}
  /\ worker' = [worker EXCEPT !.exited = TRUE]
  /\ UNCHANGED <<now, jobs, job_runs, tag_assignments, queue, published, repositoryListener,
                 lastEvent, faults, recency, scheduler, subscriber, call>>

\* the worker process is started again: main() builds a new Worker on the queue
Restart ==
  /\ worker.exited
  /\ worker.starts <= MaxRestarts
  /\ worker' = [closing |-> FALSE, exited |-> FALSE, starts |-> worker.starts + 1]
  /\ UNCHANGED <<now, jobs, job_runs, tag_assignments, queue, published, repositoryListener,
                 lastEvent, faults, recency, scheduler, subscriber, call>>

\* a Worker that is not closing takes a waiting job
Fetch == \E j \in queue : ~worker.closing /\ ~worker.exited /\ Pickup(j)

\* a step of an execution in the running worker process; the store and the
\* notifications work, an execution fails at the checkout or succeeds
Process ==
  /\ ~worker.exited
  /\ \E j \in queue :
       \/ StartRun(j)
       \/ FetchMetadata(j, "ok")
       \/ \E ok \in BOOLEAN : Checkout(j, ok)
       \/ ModelCall(j, "ok", ResponseOf(MaxTags))
       \/ Apply(j, TRUE)
       \/ Record(j, FALSE)
       \/ CompleteSucceeded(j, "none")
       \/ NotifyCompleted(j)
       \/ Catch(j, "none")
       \/ NotifyFailed(j)
       \/ Throw(j)

\* EventSubscriber.stop up to its first await: removeListener; redis.unsubscribe
StopUnsubscribe ==
  /\ subscriber.listening /\ subscriber.subscribed
  /\ subscriber' = [subscriber EXCEPT !.subscribed = FALSE]
  /\ UNCHANGED <<now, jobs, job_runs, tag_assignments, queue, published, repositoryListener,
                 lastEvent, faults, recency, scheduler, call, worker>>

\* EventSubscriber.stop after unsubscribe has resolved: listening = false;
\* redis.quit
StopQuit ==
  /\ subscriber.listening /\ ~subscriber.subscribed
  /\ subscriber' = [subscriber EXCEPT !.listening = FALSE, !.quit = TRUE]
  /\ UNCHANGED <<now, jobs, job_runs, tag_assignments, queue, published, repositoryListener,
                 lastEvent, faults, recency, scheduler, call, worker>>

\* the API process admits events until its subscriber stops; the worker process
\* is signalled, exits and is started again
NextShutdown ==
  \/ \E m \in ReadyEvents(SystemRepos) : subscriber.subscribed /\ handleMessage(m)
  \/ StopUnsubscribe
  \/ StopQuit
  \/ Fetch
  \/ Process
  \/ \E j \in queue : BackoffElapsed(j)
  \/ ShutdownSignal
  \/ Exit
  \/ Restart

\* a started worker fetches a waiting job, the backoff of a delayed job elapses,
\* and the process manager starts an exited worker again
SpecShutdown ==
  /\ Init /\ [][NextShutdown]_vars
  /\ WF_vars(Fetch) /\ WF_vars(\E j \in queue : BackoffElapsed(j)) /\ WF_vars(Restart)

(* ------------- handleMessage between its check and its enqueue --------- *)

\* handleMessage up to the await of enqueueTaggingJob: the event passed the name
\* and status filters and hasRecentSuccessfulRun has returned; recency holds
\* the repository and the answer while the handler is suspended
HandleMessageCheck(m) ==
  /\ recency = NoProbe
  /\ AdmitsIgnoringRecency(m)
  /\ Probe(m.repositoryId, RECENCY_WINDOW_MS)

\* the rest of that handleMessage call: return if the repository was tagged
\* recently, else queue.add reaches Redis
HandleMessageEnqueue ==
  /\ recency # NoProbe
  /\ queue' = IF recency.result THEN queue
              ELSE QueueAdd(queue, recency.repositoryId, "event")
  /\ recency' = NoProbe
  /\ UNCHANGED <<now, jobs, job_runs, tag_assignments, published, repositoryListener,
                 lastEvent, faults, scheduler, subscriber, call, worker>>

\* one repository that only events enqueue; store and remote services work, an
\* execution fails at the checkout or succeeds; the clock advances and finished
\* jobs leave the retained set
NextRace ==
  \/ \E m \in ReadyEvents(SystemRepos) : HandleMessageCheck(m)
  \/ HandleMessageEnqueue
  \/ \E j \in queue :
       \/ Pickup(j)
       \/ StartRun(j)
       \/ FetchMetadata(j, "ok")
       \/ \E ok \in BOOLEAN : Checkout(j, ok)
       \/ ModelCall(j, "ok", ResponseOf(MaxTags))
       \/ Apply(j, TRUE)
       \/ Record(j, FALSE)
       \/ CompleteSucceeded(j, "none")
       \/ NotifyCompleted(j)
       \/ Catch(j, "none")
       \/ NotifyFailed(j)
       \/ Throw(j)
       \/ BackoffElapsed(j)
       \/ Trim(j)
  \/ Tick

SpecRace == Init /\ [][NextRace]_vars

(* --------------- a reader in another process during startJobRun --------- *)

\* startJobRun up to the return of its first statement: the INSERT INTO job_runs
\* is committed on its own (process() has called upsertJob just before)
StartRunInsert(j) ==
  /\ AtPc(j, "begin")
  /\ LET js == upsertJob(jobs, j.repositoryId) IN
       /\ jobs' = js
       /\ job_runs' = startJobRun_runs(job_runs, JobIdOf(js, j.repositoryId), now)
  /\ queue' = Replace(queue, j, [j EXCEPT !.runId = Len(job_runs) + 1,
                                          !.runsCreated = @ + 1,
                                          !.pc = "startJobRun"])
  /\ UNCHANGED <<now, tag_assignments, published, repositoryListener, lastEvent, faults,
                 recency, scheduler, subscriber, call, worker>>

\* the second statement of startJobRun: UPDATE jobs, with the same startedAt
StartRunUpdate(j) ==
  /\ AtPc(j, "startJobRun")
  /\ jobs' = startJobRun_jobs(jobs, job_runs[j.runId].job_id, job_runs[j.runId].started_at)
  /\ queue' = Replace(queue, j, [j EXCEPT !.pc = "metadata"])
  /\ UNCHANGED <<now, job_runs, tag_assignments, published, repositoryListener, lastEvent,
                 faults, recency, scheduler, subscriber, call, worker>>

\* no row: the subqueries of listRecentJobs yield NULL
NoRun == 0

\* SELECT id FROM job_runs WHERE job_id = j.id ORDER BY started_at DESC LIMIT 1:
\* the rows the subquery may return (any of those that started last)
LatestRuns(jobId) ==
  LET rows == {i \in DOMAIN job_runs : job_runs[i].job_id = jobId} IN
  IF rows = {} THEN {NoRun}
  ELSE {i \in rows : \A k \in rows : job_runs[k].started_at <= job_runs[i].started_at}

\* GET /jobs in the API process: listRecentJobs is one SELECT, so it reads the
\* store as the last committed statement of the worker process left it
ListRecentJobs ==
  /\ \E latest \in [DOMAIN jobs -> DOMAIN job_runs \cup {NoRun}] :
       /\ \A i \in DOMAIN jobs : latest[i] \in LatestRuns(i)
       /\ call' = [fn |-> "listRecentJobs",
                   output |-> [i \in DOMAIN jobs |->
                                 [repository_id |-> jobs[i].repository_id,
                                  status |-> jobs[i].status,
                                  runs |-> jobs[i].runs,
                                  last_run_at |-> jobs[i].last_run_at,
                                  latest_run_id |-> latest[i],
                                  latest_run_status |->
                                    IF latest[i] = NoRun THEN NoString
                                    ELSE job_runs[latest[i]].status]]]
  /\ UNCHANGED <<now, jobs, job_runs, tag_assignments, queue, published,
                 repositoryListener, lastEvent, faults, recency, scheduler, subscriber, worker>>

\* the worker process on one repository, every call succeeding, and the API
\* process serving POST /jobs/:repositoryId/retry and GET /jobs
NextReaders ==
  \/ \E m \in ReadyEvents(SystemRepos) : handleMessage(m)
  \/ \E r \in SystemRepos : ManualRetry(r)
  \/ Tick
  \/ ListRecentJobs
  \/ \E j \in queue :
       \/ Pickup(j)
       \/ StartRunInsert(j)
       \/ StartRunUpdate(j)
       \/ FetchMetadata(j, "ok")
       \/ Checkout(j, TRUE)
       \/ ModelCall(j, "ok", ResponseOf(0))
       \/ Apply(j, TRUE)
       \/ Record(j, FALSE)
       \/ CompleteSucceeded(j, "none")
       \/ NotifyCompleted(j)
       \/ Trim(j)

SpecReaders == Init /\ [][NextReaders]_vars

(* =============================== claims ================================ *)

RunsOf(r) == {i \in DOMAIN job_runs : jobs[job_runs[i].job_id].repository_id = r}

Running(i) == job_runs[i].status = "running"

Sealed(i) == job_runs[i].status \in {"succeeded", "failed"}

\* the pipeline execution that created run i is still in progress
InProgress(i) == \E j \in Active(queue) : j.runId = i

\* C1: every job of repository R carries the job id taggingJobId(R), no job id
\* occurs twice in the queue, and at most one job of R is waiting, active or delayed
C1_Dedup ==
  /\ \A j \in queue : j.id = taggingJobId(j.repositoryId)
  /\ \A j, k \in queue : j.id = k.id => j = k
  /\ \A r \in Repos :
       Cardinality({j \in queue : j.repositoryId = r /\ j.state \in Pending}) <= 1

\* the manual-retry endpoint ran (it created the jobs row; no run has started)
\* while the job admitted by an event was waiting, and its add changed nothing
C1_Witness ==
  /\ jobs # <<>> /\ job_runs = <<>>
  /\ \E j \in queue : j.trigger = "event" /\ j.state = "waiting"

Added(r, trigger) ==
  {j \in queue' \ queue : j.repositoryId = r /\ j.trigger = trigger /\ j.state = "waiting"}

\* C3: a step taken while hasRecentSuccessfulRun(R, 12 h) is true adds no job of
\* trigger event for R, and a step taken while hasRecentSuccessfulRun(R, 24 h) is
\* true adds no job of trigger scheduler for R
C3_RecencyGate ==
  [][\A r \in Repos :
       /\ hasRecentSuccessfulRun(jobs, job_runs, now, r, RECENCY_WINDOW_MS)
            => Added(r, "event") = {}
       /\ hasRecentSuccessfulRun(jobs, job_runs, now, r, FALLBACK_RECENCY_WINDOW_MS)
            => Added(r, "scheduler") = {}]_vars

\* a ready repository.updated event for a recently tagged repository was handled,
\* and the queue holds no job for that repository
C3_Witness ==
  /\ lastEvent \in ReadyEvents(Repos)
  /\ hasRecentSuccessfulRun(jobs, job_runs, now, lastEvent.repositoryId, RECENCY_WINDOW_MS)
  /\ ~JobExists(queue, taggingJobId(lastEvent.repositoryId))

\* some succeeded run of r has a completed_at with 0 <= t - completed_at <= maxAgeMs
SomeRunWithin(r, t, maxAgeMs) ==
  \E i \in DOMAIN job_runs :
    /\ jobs[job_runs[i].job_id].repository_id = r
    /\ job_runs[i].status = "succeeded"
    /\ job_runs[i].completed_at # NullTime
    /\ 0 <= t - job_runs[i].completed_at
    /\ t - job_runs[i].completed_at <= maxAgeMs

\* C4: hasRecentSuccessfulRun(R, maxAgeMs) returns true exactly when some succeeded
\* run of R has a completed_at with 0 <= now - completed_at <= maxAgeMs
C4_RecentIffSomeRunInWindow ==
  recency # NoProbe =>
    (recency.result <=> SomeRunWithin(recency.repositoryId, now, recency.maxAgeMs))

\* the four conditions under which event admission is to enqueue
ToEnqueue(m) ==
  /\ m.eventName \in {<<"repository", "updated">>, <<"repository", "ingestion-event">>}
  /\ m.repositoryId # NoString
  /\ m.ingestStatus = "ready"
  /\ ~SomeRunWithin(m.repositoryId, now, RECENCY_WINDOW_MS)

\* C5: handling a message calls queue.add with trigger event for its repository
\* exactly when the four conditions hold (the call adds the job unless the job id
\* is present), leaves the queue alone otherwise, and hands every repository.*
\* event that names a repository to the listener
C5_EventAdmission ==
  [][\A m \in Messages :
       handleMessage(m) =>
         /\ queue' = IF ToEnqueue(m) /\ ~(\E j \in queue : j.id = taggingJobId(m.repositoryId))
                       THEN queue \cup {NewJob(m.repositoryId, "event")}
                       ELSE queue
         /\ (m.eventName[1] = "repository" /\ m.repositoryId # NoString)
              => lastEvent' = m]_vars

\* a repository.deleted event was forwarded to the listener and enqueued nothing,
\* although its repository is ready and has no recent successful run
C5_Witness ==
  /\ lastEvent.eventName = <<"repository", "deleted">>
  /\ lastEvent.ingestStatus = "ready"
  /\ ~SomeRunWithin(lastEvent.repositoryId, now, RECENCY_WINDOW_MS)
  /\ queue = {}

\* C6 as stated: at most 3 attempts; a job that failed with a transient error is in
\* the failed set only after its third attempt; a job that failed with a permanent
\* error is in the failed set and exactly one run was created for it
C6_PermanentOneRun ==
  \A j \in queue :
    /\ j.attemptsStarted <= attempts
    /\ (j.failedReason = Transient /\ j.state = "failed") => j.attemptsStarted = attempts
    /\ j.failedReason = Permanent => j.state = "failed" /\ j.runsCreated = 1

\* C6 amended: as above, but the runs created for a permanently failed job are
\* those of its attempts (one per attempt, none after the permanent failure)
C6_RetryPolicy ==
  \A j \in queue :
    /\ j.attemptsStarted <= attempts
    /\ j.runsCreated <= j.attemptsStarted
    /\ (j.failedReason = Transient /\ j.state = "failed") => j.attemptsStarted = attempts
    /\ j.failedReason = Permanent =>
         j.state = "failed" /\ j.runsCreated = j.attemptsStarted

\* a job failed permanently on its second attempt, after a transient failure
C6_Witness ==
  \E j \in queue :
    /\ j.failedReason = Permanent /\ j.state = "failed" /\ j.runsCreated = 2
    /\ job_runs[1].error_message = Transient

\* C7: a tagging.failed event carries transient=true when the run failed with a
\* transient error or an HTTP error of a collaborator, transient=false only when it
\* failed with a permanent error, and no job is rescheduled after transient=false
C7_TransientFlag ==
  \A e \in published :
    e.event = "tagging.failed" =>
      LET cls == job_runs[e.jobRunId].error_message IN
        /\ cls \in {Transient, HttpFailure} => e.transient
        /\ ~e.transient => cls \in {Permanent, RepoUrlMessage}
        /\ ~e.transient =>
             ~\E j \in queue : j.runId = e.jobRunId /\ j.state = "delayed"

\* C8 as stated: every run whose execution has ended was sealed exactly once, as
\* succeeded or failed; a succeeded run has a completed_at
C8_SealedOnce ==
  \A i \in DOMAIN job_runs :
    /\ job_runs[i].seals <= 1
    /\ ~InProgress(i) => Sealed(i) /\ job_runs[i].seals = 1
    /\ job_runs[i].status = "succeeded" => job_runs[i].completed_at # NullTime

\* C9: a sealed run keeps its status, completed_at and error_message
C9_NoReopen ==
  [][\A i \in DOMAIN job_runs :
       Sealed(i) => /\ job_runs'[i].status = job_runs[i].status
                    /\ job_runs'[i].completed_at = job_runs[i].completed_at
                    /\ job_runs'[i].error_message = job_runs[i].error_message]_vars

\* C10 as stated: every assignment belongs to a succeeded run
C10_OnlySucceeded ==
  \A a \in tag_assignments : job_runs[a[1]].status = "succeeded"

\* C10 amended: an assignment belongs to a run that is succeeded, or still running
\* (recorded, not sealed yet), or failed because sealing it as succeeded raised
C10_RecordedBeforeSeal ==
  \A i \in DOMAIN job_runs :
    (AssignmentsOf(i) # {} /\ job_runs[i].status = "failed")
      => job_runs[i].sealErrors > 0 /\ job_runs[i].error_message = StoreFailure

\* a run that failed while applying its tags was sealed, and has no assignment
C10_Witness ==
  \E i \in DOMAIN job_runs :
    /\ job_runs[i].status = "failed" /\ job_runs[i].error_message = Transient
    /\ job_runs[i].raw_response /\ AssignmentsOf(i) = {}
    /\ \E k \in DOMAIN job_runs : AssignmentsOf(k) # {} /\ job_runs[k].status = "succeeded"

\* rows of job_runs owned by job i
OwnedRuns(i) == {k \in DOMAIN job_runs : job_runs[k].job_id = i}

C12_UpsertFrame ==
  [][/\ \A i, k \in DOMAIN jobs' :
          jobs'[i].repository_id = jobs'[k].repository_id => i = k
     /\ \A r \in Repos : (JobKnown(jobs, r) /\ ManualRetry(r)) => jobs' = jobs
     /\ \A j \in queue :
          (JobKnown(jobs, j.repositoryId) /\ StartRun(j)) =>
            jobs'[JobIdOf(jobs, j.repositoryId)].runs =
              jobs[JobIdOf(jobs, j.repositoryId)].runs + 1
     /\ \A i \in DOMAIN jobs :
          /\ jobs'[i].repository_id = jobs[i].repository_id
          /\ jobs'[i].status = "queued" => jobs[i].status = "queued"]_vars

\* the retry endpoint upserted a repository whose job had already run and been
\* sealed (its add was accepted, the earlier queue job being gone): the row kept
\* its status and counter
C12_Witness ==
  /\ \E j \in queue : j.trigger = "manual" /\ j.state = "waiting" /\ j.attemptsStarted = 0
  /\ Len(jobs) = 1 /\ jobs[1].runs = 2 /\ jobs[1].status = "succeeded"

\* the one message of the model that contains "repoUrl"
MentionsRepoUrl(msg) == msg = RepoUrlMessage

C14_RetryThenSuccess ==
  \A j \in queue :
    j.state = "completed" =>
      /\ {i \in DOMAIN job_runs : job_runs[i].status = "succeeded"} = {j.runId}
      /\ \A i \in DOMAIN job_runs : i # j.runId =>
           job_runs[i].status = "failed" /\ job_runs[i].error_message = Transient
      /\ Cardinality({e \in published : e.event = "tagging.completed"}) = 1
      /\ \A e \in published : e.event = "tagging.completed" =>
           /\ e.jobRunId = j.runId
           /\ e.repositoryTags = Len(normalizeRepositoryTags(j.response.repository_tags))
           /\ e.fileTags = CountFileTags(normalizeFileTags(j.response.file_tags))

\* the model request failed on the first attempt and the second attempt succeeded
\* with a response whose two repository tags normalize to one and one of whose
\* two files keeps no tag
C14_Witness ==
  \E j \in queue :
    /\ j.state = "completed" /\ j.attemptsStarted = 2
    /\ job_runs[1].status = "failed" /\ job_runs[1].prompt /\ ~job_runs[1].raw_response
    /\ Len(j.response.repository_tags) = 2 /\ Len(j.repositoryTags) = 1
    /\ Len(j.response.file_tags) = 2 /\ Len(j.fileTags) = 1
    /\ \E e \in published : e.event = "tagging.completed" /\ e.repositoryTags = 1
                              /\ e.fileTags = 1

\* lifecycle events published for run i
EventsOf(i, event) == {e \in published : e.jobRunId = i /\ e.event = event}

Undelivered(e) == ~e.delivery.redis \/ (e.delivery.posts > 0 /\ ~e.delivery.webhook)

\* C16: a step that publishes a lifecycle event which Redis or the webhook endpoint
\* did not take makes at most WEBHOOK_RETRY + 1 POSTs, leaves jobs and job_runs as
\* they are, and the execution ends as it would have: it returns after
\* tagging.completed and rethrows the original error after tagging.failed
C16_NotificationFailureHarmless ==
  [][\A j \in queue :
       (/\ j.state = "active" /\ j.pc \in {"notify", "notifyFailed"}
        /\ \E e \in published' \ published : e.jobRunId = j.runId /\ Undelivered(e))
       => /\ job_runs' = job_runs
          /\ jobs' = jobs
          /\ \A e \in published' \ published : e.delivery.posts <= WEBHOOK_RETRY + 1
          /\ queue' = Replace(queue, j,
                        IF j.pc = "notify"
                          THEN [j EXCEPT !.state = "completed", !.pc = "idle"]
                          ELSE [j EXCEPT !.pc = "throw"])]_vars

\* the job completed on its first attempt although neither Redis nor the webhook
\* endpoint, after two POSTs, took tagging.completed
C16_Witness ==
  \E j \in queue, e \in published :
    /\ j.state = "completed" /\ j.attemptsStarted = 1
    /\ e.jobRunId = j.runId /\ e.event = "tagging.completed"
    /\ ~e.delivery.redis /\ e.delivery.posts = 2 /\ ~e.delivery.webhook
    /\ job_runs[j.runId].status = "succeeded"

\* runCycle calls that have passed the guard and not reached the finally block
ActiveCycles == {i \in DOMAIN scheduler.cycles : scheduler.cycles[i].active}

\* C17: at most one cycle is in progress and this.running is set exactly while one
\* is; a timer tick or a start that finds a cycle in progress changes nothing, and
\* one that finds none, the last cycle having ended in any way, starts a cycle at
\* page 1
C17_OneCycle ==
  /\ [](Cardinality(ActiveCycles) <= 1 /\ (scheduler.running <=> ActiveCycles # {}))
  /\ [][(TimerFires \/ (start /\ ~scheduler.timer)) =>
          IF ActiveCycles # {}
            THEN scheduler.cycles' = scheduler.cycles /\ queue' = queue
            ELSE /\ scheduler.running'
                 /\ scheduler.cycles' = <<NewCycle>>]_vars

\* a cycle ended in its catch block and the next tick started a cycle, which has
\* been given its first page
C17_Witness ==
  /\ scheduler.previous = "failed"
  /\ \E i \in ActiveCycles : scheduler.cycles[i].pc = "visit"

\* the conditions under which the scheduler is to enqueue a listed repository
ShouldSchedule(repo) ==
  /\ repo.id # NoString
  /\ repo.ingestStatus \in {NoString, "ready"}
  /\ ~SomeRunWithin(repo.id, now, FALLBACK_RECENCY_WINDOW_MS)

\* ids of the listed repositories the scheduler is to enqueue, in catalog order
Scheduled(catalog) ==
  LET sel == SelectSeq(catalog, ShouldSchedule) IN [k \in DOMAIN sel |-> sel[k].id]

\* the first page of the catalog that is empty or short
LastPage(catalog) == (Len(catalog) \div perPage) + 1

Listed(r) ==
  \E k \in DOMAIN scheduler.catalog :
    /\ scheduler.catalog[k].id = r
    /\ scheduler.catalog[k].ingestStatus \in {NoString, "ready"}

\* C19: a repository that is listed with ingestStatus absent or ready and has no
\* successful run in the past 24 hours eventually has a job of trigger scheduler in
\* the queue, although no event is ever received
C19_Backstop ==
  \A r \in Repos :
    (Listed(r) /\ ~SomeRunWithin(r, now, FALLBACK_RECENCY_WINDOW_MS))
      ~> (\E j \in queue : j.repositoryId = r /\ j.trigger = "scheduler")

\* C20: handling a message that is not valid JSON, whose event name is outside
\* the repository namespace, or that names no repository leaves the queue, the
\* listener, the audit store and the subscription as they are; and a subscriber
\* that has dropped a message enqueues the next message that is to be enqueued
C20_DroppedMessage ==
  [][\A raw \in RawMessages :
       messageListener(raw) =>
         /\ (\/ ~raw.json
             \/ raw.parsed.eventName[1] # "repository"
             \/ raw.parsed.repositoryId = NoString)
            => /\ queue' = queue
               /\ lastEvent' = lastEvent
               /\ <<jobs, job_runs, tag_assignments>>' = <<jobs, job_runs, tag_assignments>>
               /\ subscriber'.listening
         /\ (subscriber.dropped /\ raw.json /\ ToEnqueue(raw.parsed))
            => \E j \in queue' : j.repositoryId = raw.parsed.repositoryId]_vars

\* the subscriber has dropped a message: it is still subscribed, the queue is
\* empty and the listener was never called
C20_Witness ==
  /\ subscriber.dropped /\ subscriber.listening
  /\ queue = {}
  /\ lastEvent = NoEvent

\* C21: the row of a failed run holds the raw model response whenever the
\* execution had received one, usable or not, and the prompt whenever the
\* execution had built it
C21_FailedRunKeepsResponse ==
  \A j \in queue :
    (/\ j.state = "active" /\ j.pc \in {"notifyFailed", "throw"}
     /\ job_runs[j.runId].status = "failed")
    => /\ j.received => job_runs[j.runId].raw_response
       /\ j.prompt => job_runs[j.runId].prompt

C23_NormalizationIdempotent ==
  /\ call.fn = "normalizeRepositoryTags"
       => normalizeRepositoryTags(call.output) = call.output
  /\ call.fn = "normalizeFileTags"
       => normalizeFileTags(call.output) = call.output

\* file tags were normalized: a file was dropped and a kept file's tags changed
C23_Witness ==
  /\ call.fn = "normalizeFileTags"
  /\ Len(call.input) = 2
  /\ Len(call.output) = 1
  /\ \E i \in DOMAIN call.input :
       /\ call.input[i].path = call.output[1].path
       /\ call.input[i].tags # call.output[1].tags

\* the (key, value) an input tag normalizes to
NormalizedPair(tag) == <<normalizeKey(tag.key), normalizeValue(tag.value)>>

\* the input positions whose tag survives: neither part empty, and no earlier
\* position with the same normalized (key, value)
FirstOccurrences(tags) ==
  {i \in DOMAIN tags :
     /\ NormalizedPair(tags[i])[1] # <<>>
     /\ NormalizedPair(tags[i])[2] # <<>>
     /\ \A k \in 1..(i - 1) : NormalizedPair(tags[k]) # NormalizedPair(tags[i])}

\* C24: normalizeRepositoryTags returns no two entries with the same (key, value),
\* no empty key or value, keys of lowercase letters, digits and inner underscores
\* only, and exactly the first occurrences of the input, in input order, each with
\* its clamped confidence
C24_NormalizeRepositoryTags ==
  call.fn = "normalizeRepositoryTags" =>
    LET out == call.output
        kept == FirstOccurrences(call.input) IN
    /\ \A i, k \in DOMAIN out :
         (out[i].key = out[k].key /\ out[i].value = out[k].value) => i = k
    /\ \A i \in DOMAIN out :
         /\ out[i].key # <<>> /\ out[i].value # <<>>
         /\ \A n \in DOMAIN out[i].key : IsKeyChar(out[i].key[n]) \/ out[i].key[n] = "_"
         /\ IsKeyChar(out[i].key[1]) /\ IsKeyChar(out[i].key[Len(out[i].key)])
         /\ out[i].confidence.kind \in {"undefined", "number"}
         /\ out[i].confidence.kind = "number" => out[i].confidence.n \in 0..10
    /\ Len(out) = Cardinality(kept)
    /\ \A i \in kept :
         LET position == Cardinality({k \in kept : k <= i}) IN
         /\ <<out[position].key, out[position].value>> = NormalizedPair(call.input[i])
         /\ out[position].confidence = clampConfidence(call.input[i].confidence)

\* a later spelling of a kept tag, with another confidence, was dropped, and so
\* was an entry between two kept ones
C24_Witness ==
  /\ call.fn = "normalizeRepositoryTags"
  /\ Len(call.output) = 2
  /\ \E i, k \in DOMAIN call.input :
       /\ i < k
       /\ i \in FirstOccurrences(call.input)
       /\ NormalizedPair(call.input[i]) = NormalizedPair(call.input[k])
       /\ clampConfidence(call.input[i].confidence)
            # clampConfidence(call.input[k].confidence)
  /\ \E i \in DOMAIN call.input :
       /\ i \notin FirstOccurrences(call.input)
       /\ i - 1 \in FirstOccurrences(call.input)
       /\ i + 1 \in FirstOccurrences(call.input)

\* the input positions of the files that keep at least one tag
FilesWithTags(fileTags) ==
  {i \in DOMAIN fileTags : normalizeRepositoryTags(fileTags[i].tags) # <<>>}

\* C25: normalizeFileTags returns, in input order, exactly the input files whose
\* normalized tag list is non-empty, each with its path and its normalized tags
C25_NormalizeFileTags ==
  call.fn = "normalizeFileTags" =>
    LET kept == FilesWithTags(call.input) IN
    /\ Len(call.output) = Cardinality(kept)
    /\ \A i \in kept :
         LET position == Cardinality({k \in kept : k <= i}) IN
         /\ call.output[position].path = call.input[i].path
         /\ call.output[position].tags = normalizeRepositoryTags(call.input[i].tags)

\* the first file had tags and lost them all, the second one was kept
C25_Witness ==
  /\ call.fn = "normalizeFileTags"
  /\ Len(call.input) = 2
  /\ call.input[1].tags # <<>>
  /\ FilesWithTags(call.input) = {2}
  /\ Len(call.output) = 1
  /\ call.output[1].path = call.input[2].path

\* the (key, value) pairs of a tag list
PairsOf(tags) == {<<tags[i].key, tags[i].value>> : i \in DOMAIN tags}

\* C26: diffRepositoryTags(new, existing).apply is new and every (key, value) of
\* .remove is one of existing and none of new, so remove and apply are disjoint;
\* diffFileTags(new).apply is new and .remove is empty
C26_Diff ==
  /\ call.fn = "diffRepositoryTags" =>
       /\ call.output.apply = call.input.newTags
       /\ PairsOf(call.output.remove)
            \subseteq PairsOf(call.input.existingTags) \ PairsOf(call.input.newTags)
       /\ PairsOf(call.output.remove) \cap PairsOf(call.output.apply) = {}
  /\ call.fn = "diffFileTags" =>
       /\ call.output.apply = call.input.newTags
       /\ call.output.remove = <<>>

\* of two existing tags one is among the new ones and stays, the other is removed
C26_Witness ==
  /\ call.fn = "diffRepositoryTags"
  /\ Len(call.input.existingTags) = 2
  /\ Len(call.input.newTags) = 2
  /\ Len(call.output.remove) = 1
  /\ PairsOf(call.input.existingTags) \cap PairsOf(call.input.newTags) # {}

\* C27: every persisted tag assignment has a confidence that is null or a number
\* of [0,1], whatever the model response was
C27_StoredConfidenceInRange ==
  \A a \in tag_assignments :
    \/ a[3].confidence.kind = "null"
    \/ a[3].confidence.kind = "number" /\ a[3].confidence.n \in 0..10

\* the value supplied for a name, and the empty string for a name with none
Supplied(replacements) ==
  [key \in Words |-> IF key \in DOMAIN replacements THEN replacements[key] ELSE ""]

\* C28: interpolation replaces every placeholder of the template by the value
\* supplied for its name, and by the empty string when no value is supplied
C28_Interpolation ==
  call.fn = "interpolate" =>
    call.output = Render(call.input.template, Supplied(call.input.replacements))

\* C29: no reader sees a new JobRun row while its job's counter, last_run_at and
\* status are still those of before startRun: a listed job whose latest run is
\* running is itself running, has counted a run and has a last_run_at
C29_StartRunAtomic ==
  call.fn = "listRecentJobs" =>
    \A i \in DOMAIN call.output :
      call.output[i].latest_run_status = "running"
        => /\ call.output[i].status = "running"
           /\ call.output[i].runs > 0
           /\ call.output[i].last_run_at # NullTime

\* the statements of process() in program order: the calls before the try block,
\* the try block, the catch block
Positions ==
  <<"begin", "metadata", "checkout", "model", "apply", "record", "complete", "notify",
    "catch", "notifyFailed", "throw", "idle">>

Rank(pc) == CHOOSE n \in DOMAIN Positions : Positions[n] = pc

\* completeJobRun was called on row i in this step
CompleteRunCalled(i) ==
  \/ job_runs'[i].seals # job_runs[i].seals
  \/ job_runs'[i].sealErrors # job_runs[i].sealErrors

\* C30: within one execution the store sees startRun before completeRun, the tag
\* writes come before recordAssignments, recordAssignments before completeRun, and
\* a notification is emitted only after a completeRun call has returned
C30_Order ==
  [][/\ \A j \in queue, k \in queue' :
          (j.id = k.id /\ j.state = "active" /\ k.state = "active")
            => Rank(j.pc) <= Rank(k.pc)
     /\ Len(job_runs') > Len(job_runs) => \E j \in queue : AtPc(j, "begin")
     /\ tag_assignments' # tag_assignments =>
          \E j \in queue : AtPc(j, "record") /\ job_runs[j.runId].seals = 0
                                             /\ job_runs[j.runId].sealErrors = 0
     /\ \A i \in DOMAIN job_runs :
          CompleteRunCalled(i) =>
            \E j \in queue : j.runId = i /\ (AtPc(j, "complete") \/ AtPc(j, "catch"))
     /\ published' # published =>
          \E j \in queue :
            /\ AtPc(j, "notify") \/ AtPc(j, "notifyFailed")
            /\ job_runs[j.runId].status = IF j.pc = "notify" THEN "succeeded" ELSE "failed"
            /\ \A e \in published' \ published : e.jobRunId = j.runId
    ]_vars

\* an execution went through every step: tags written and recorded, the run
\* completed by one call, tagging.completed published
C30_Witness ==
  \E j \in queue :
    /\ j.state = "completed"
    /\ AssignmentsOf(j.runId) # {}
    /\ job_runs[j.runId].status = "succeeded"
    /\ job_runs[j.runId].seals = 1 /\ job_runs[j.runId].sealErrors = 0
    /\ \E e \in published : e.jobRunId = j.runId /\ e.event = "tagging.completed"


\* ------------------------------------------------------------------
\* C31: job status follows the most recently started run

\* the runs of one Job row
RunsOfJob(jobId) == {i \in DOMAIN job_runs : job_runs[i].job_id = jobId}

\* run ids are AUTOINCREMENT: the highest id is the most recently started run
LatestRun(jobId) == CHOOSE i \in RunsOfJob(jobId) : \A k \in RunsOfJob(jobId) : k <= i

\* C31: whenever no run of a job is in progress, the job's status equals the
\* status of its most recently started run, or queued if it has never run
C31_JobStatusFollowsRun ==
  \A jobId \in DOMAIN jobs :
    (\A i \in RunsOfJob(jobId) : ~InProgress(i)) =>
      jobs[jobId].status = IF RunsOfJob(jobId) = {}
                             THEN "queued"
                             ELSE job_runs[LatestRun(jobId)].status

\* ------------------------------------------------------------------
\* C32: an audit-store error leaves process() and the job is retried

\* a statement of the audit store raised in this step
StoreErrorRaised == faults' > faults

\* C32: an audit-store error raised in recordTagAssignments or completeJobRun is
\* the error the execution rejects with, no tagging.completed is published for
\* its run, and the job is not discarded: it is retried under the queue's retry
\* policy (delayed while attempts remain)
C32_StoreErrorSurfaces ==
  [][/\ \A j \in queue, k \in queue' :
          j.id = k.id =>
            /\ (StoreErrorRaised /\ j.state = "active")
                  => k.err = StoreFailure /\ k.pc \in {"catch", "throw"}
            /\ (j.state = "active" /\ j.err = StoreFailure) => k.err = StoreFailure
            /\ (AtPc(j, "throw") /\ j.err = StoreFailure /\ k.state # "active")
                  => /\ k.failedReason = StoreFailure
                     /\ k.state = IF j.attemptsStarted < attempts
                                    THEN "delayed" ELSE "failed"
     /\ \A k \in queue' :
          k.err = StoreFailure =>
            \A e \in published' : e.jobRunId = k.runId => e.event # "tagging.completed"
    ]_vars

\* recordTagAssignments or completeJobRun(succeeded) raised, the run was written
\* as failed, and the job waits for its next attempt
C32_Witness ==
  \E j \in queue :
    /\ j.state = "delayed" /\ j.failedReason = StoreFailure
    /\ j.received
    /\ job_runs[j.runId].status = "failed"
    /\ EventsOf(j.runId, "tagging.failed") # {}

\* ------------------------------------------------------------------
\* C33: the requests and the error class of one model call

\* a 200 whose message content is missing, is not JSON, or has no repository_tags
\* array
UnusableContent ==
  {"emptyBody", "nullBody", "noContent", "contentNotJson", "contentNull",
   "noRepositoryTags"}

\* C33: a model call makes at most 3 HTTP requests, waiting 500 ms times the
\* attempt number between them; when all of them fail with a network or HTTP
\* error the failure is transient; a 200 with unusable message content is a
\* permanent failure after exactly one HTTP request, not retried by the queue
C33_ModelCallFailures ==
  call.fn = "generateTags" =>
    LET answers == call.input
        out == call.output IN
    /\ out.requests <= 3
    /\ \A k \in DOMAIN out.delays : out.delays[k] = 500 * k
    /\ (\A k \in 1..3 : answers[k] \in {"network", "httpError"})
          => out.requests = 3 /\ out.error = Transient
    /\ answers[1] \in UnusableContent
          => out.requests = 1 /\ out.error = Permanent /\ call.discarded

\* ------------------------------------------------------------------
\* C34: what the remove list and the apply list hold

\* C34: every entry of the remove list is the (key, value) pair of an existing
\* catalog tag whose source is absent (or empty) or "tagging-service", it is not
\* in the new tag set, and every tag of the apply list is posted with source
\* "tagging-service"
C34_RemoveOnlyOwnTags ==
  call.fn = "applyRepositoryTags" =>
    LET existing == call.input.tags
        new == call.input.repositoryTags
        out == call.output IN
    /\ \A i \in DOMAIN out.remove :
         /\ \E k \in DOMAIN existing :
              /\ existing[k].key = out.remove[i].key
              /\ existing[k].value = out.remove[i].value
              /\ OwnSource(existing[k])
         /\ \A k \in DOMAIN new :
              new[k].key # out.remove[i].key \/ new[k].value # out.remove[i].value
    /\ \A i \in DOMAIN out.tags : out.tags[i].source = SOURCE

\* ------------------------------------------------------------------
\* C35: where normalizeEvent takes the repository id, the status and the name from

\* a property that holds a non-empty string
Present(v) == v # NoString /\ v # NotAString

\* the first present value of a list of candidates, or none
FirstPresent(candidates) ==
  IF \E k \in DOMAIN candidates : Present(candidates[k])
    THEN candidates[CHOOSE k \in DOMAIN candidates :
                      /\ Present(candidates[k])
                      /\ \A h \in 1..(k - 1) : ~Present(candidates[h])]
    ELSE NoString

\* C35: for an envelope-shaped message the repository id is the first present of
\* event.data.repository.id, event.data.repositoryId, event.data.event.repositoryId,
\* ingestStatus, independently, the first present of
\* event.data.repository.ingestStatus, event.data.ingestStatus,
\* event.data.event.status; the event name is the top-level event when that is a
\* string, otherwise event.type
C35_EnvelopePrecedence ==
  call.fn = "normalizeEvent" =>
    LET parsed == call.input
        data == parsed.data IN
    /\ (parsed.event = "object" /\ data.object) =>
         /\ call.read.repositoryId =
              FirstPresent(<<data.repository.id, data.repositoryId,
                             data.event.repositoryId>>)
         /\ call.read.ingestStatus =
              FirstPresent(<<data.repository.ingestStatus, data.ingestStatus,
                             data.event.status>>)
    /\ call.read.eventName = CASE parsed.event = "string" -> parsed.name
                               [] parsed.event = "object" -> parsed.type
                               [] OTHER -> NoName
    /\ call.output \in {NoEvent, call.read}
    /\ call.output = NoEvent
         <=> (call.read.eventName[1] # "repository" \/ call.read.repositoryId = NoString)

\* all three places hold a repository id and only the last two a status: the id
\* comes from the first place, the status from the second
C35_Witness ==
  /\ call.fn = "normalizeEvent"
  /\ call.input.event = "object" /\ call.input.data.object
  /\ call.input.data.repository.id = "r1" /\ call.input.data.repositoryId = "r2"
  /\ call.input.data.event.repositoryId = "r3"
  /\ call.input.data.repository.ingestStatus = NotAString
  /\ call.input.data.ingestStatus = "pending" /\ call.input.data.event.status = "failed"
  /\ call.output.repositoryId = "r1" /\ call.output.ingestStatus = "pending"

\* ------------------------------------------------------------------
\* C36: a failed file-explorer search

RECURSIVE SumOf(_)
SumOf(counts) == IF counts = <<>> THEN 0 ELSE Head(counts) + SumOf(Tail(counts))

Unfinished == {j \in queue : j.state \in {"waiting", "delayed"}}

WritePositions == {"apply", "record", "complete", "notify"}

\* C38: the tag writes (the step that leaves position apply) and
\* recordTagAssignments happen only in an execution whose metadata fetch,
\* checkout, prompt assembly and model call succeeded with a repository_tags
\* array; an execution that fails at or before the model call writes no tag and
\* leaves tag_assignments unchanged
C38_NoWriteWithoutModel ==
  [][/\ \A k \in queue' :
          (k.state = "active" /\ k.pc \in WritePositions)
            => k.prompt /\ k.received /\ k.raw /\ k.err = NoError
     /\ \A j \in queue, k \in queue' :
          (j.id = k.id /\ k.state = "active" /\ k.pc = "apply" /\ j.pc # "apply")
            => AtPc(j, "model")
     /\ tag_assignments' # tag_assignments =>
          \E j \in queue :
            /\ AtPc(j, "record") /\ j.prompt /\ j.received /\ j.raw
            /\ \A row \in tag_assignments' \ tag_assignments : row[1] = j.runId
     /\ \A j \in queue, k \in queue' :
          (j.id = k.id /\ j.state = "active" /\ ~j.raw
             /\ j.pc \in {"catch", "notifyFailed", "throw"})
            => /\ tag_assignments' = tag_assignments
               /\ k.state = "active" => k.pc \in {"catch", "notifyFailed", "throw"}
               /\ \A row \in tag_assignments' : row[1] # j.runId
    ]_vars

\* an execution received a 200 without a usable repository_tags array and failed:
\* no assignment exists for its run, while an earlier or later execution may
\* have recorded its own
C38_Witness ==
  \E j \in queue :
    /\ j.state = "failed" /\ j.err = Permanent
    /\ j.received /\ ~j.raw
    /\ job_runs[j.runId].status = "failed"
    /\ AssignmentsOf(j.runId) = {}

\* ------------------------------------------------------------------
\* C39: event-triggered runs of one repository are at least a window apart

\* C39: for a repository that only events enqueue, no two succeeded runs
\* complete within 12 hours of each other, under every interleaving of the
\* recency check, the enqueue and the worker
C39_SucceededRunsApart ==
  \A a, b \in DOMAIN job_runs :
    (/\ a < b
     /\ job_runs[a].job_id = job_runs[b].job_id
     /\ job_runs[a].status = "succeeded" /\ job_runs[b].status = "succeeded")
      => job_runs[b].completed_at - job_runs[a].completed_at > RECENCY_WINDOW_MS

(* ------------------ the reply of the manual-retry endpoint -------------- *)

\* what queue.add comes to: the job is added or found present (BullMQ answers a
\* present job id without an error), it rejects with an error whose message
\* contains 'already exists', or it rejects with any other error
AddOutcomes == {"added", "alreadyExists", "unavailable"}

\* reply.code(202).send({ repositoryId, jobId })
Accepted(r) == [code |-> 202, repositoryId |-> r, jobId |-> taggingJobId(r)]

\* the reply of the framework to a handler that threw
InternalError == [code |-> 500]

PostRetryBehindRecencyGate(r, outcome) ==
  /\ outcome = "alreadyExists" => JobExists(queue, taggingJobId(r))
  /\ jobs' = upsertJob(jobs, r)
  /\ queue' = IF outcome = "added"
                   /\ ~hasRecentSuccessfulRun(jobs, job_runs, now, r, RECENCY_WINDOW_MS)
                THEN QueueAdd(queue, r, "manual") ELSE queue
  /\ call' = [fn |-> "POST /jobs/:repositoryId/retry", input |-> r, add |-> outcome,
              duplicate |-> JobExists(queue, taggingJobId(r)),
              output |-> IF outcome = "unavailable" THEN InternalError ELSE Accepted(r)]
  /\ UNCHANGED <<now, job_runs, tag_assignments, published, repositoryListener, lastEvent, faults,
                 recency, scheduler, subscriber, worker>>

\* POST /jobs/:repositoryId/retry with its reply: upsertJob, queue.add in a try
\* block whose catch swallows 'already exists' and rethrows the rest, then 202
PostRetry(r, outcome) ==
  /\ outcome = "alreadyExists" => JobExists(queue, taggingJobId(r))
  /\ jobs' = upsertJob(jobs, r)
  /\ queue' = IF outcome = "added" THEN QueueAdd(queue, r, "manual") ELSE queue
  /\ call' = [fn |-> "POST /jobs/:repositoryId/retry", input |-> r, add |-> outcome,
              duplicate |-> JobExists(queue, taggingJobId(r)),
              output |-> IF outcome = "unavailable" THEN InternalError ELSE Accepted(r)]
  /\ UNCHANGED <<now, job_runs, tag_assignments, published, repositoryListener, lastEvent, faults,
                 recency, scheduler, subscriber, worker>>

\* the API process on a store with finished runs at the current time and one window
\* earlier; a repository without runs may have no jobs row yet
InitManual ==
  /\ now = ClockStep
  /\ job_runs \in StoredSeqs(StoredRuns({"succeeded", "failed"}, {0, ClockStep}))
  /\ jobs \in {StoredJobs(job_runs)} \cup (IF job_runs = <<>> THEN {<<>>} ELSE {})
  /\ tag_assignments = {}
  /\ queue = {}
  /\ published = {}
  /\ repositoryListener = FALSE
  /\ lastEvent = NoEvent
  /\ faults = 0
  /\ recency = NoProbe
  /\ scheduler = SchedulerIdle
  /\ subscriber = Subscribed
  /\ call = NoCall
  /\ worker = WorkerStarted

NextManual ==
  \/ \E m \in ReadyEvents(Repos) : handleMessage(m)
  \/ \E r \in Repos, outcome \in AddOutcomes : PostRetry(r, outcome)
  \/ Tick

\* retries through the API next to event admission, as the clock advances
SpecManual == InitManual /\ [][NextManual]_vars

====
